---- MODULE Spec2Model ----
(***************************************************************************)
(* Model of the PAC decompiler's LZP decoder (src/pac).                    *)
(*                                                                         *)
(* Two variants of the decoder live in the repository:                     *)
(*   "refined" : LZPDecompressor.unlzp       (pac_decompiler_refined.py)   *)
(*   "fixed"   : FixedLZPDecompressor.unlzp  (pac_decompiler_fixed.py)     *)
(* A behaviour of Spec fixes one variant, one compressed data stream and   *)
(* one mask stream, and then runs consecutive unlzp calls on ONE decoder   *)
(* object, the caller dropping the consumed prefixes after each call as    *)
(* decompress_domains does.  unlzp is modelled step by step (one step per  *)
(* loop test, per mask bit, per buffer join); the same step functions are  *)
(* iterated by the operators LZPDecompressor_unlzp and                     *)
(* FixedLZPDecompressor_unlzp, which give the result of one whole call.    *)
(*                                                                         *)
(* Further specifications in this module: SpecTwin (two decoder objects,   *)
(* whole calls), SpecDD (decompress_domains over a schedule), SpecOrder    *)
(* (one zone under two orders of its entries), SpecCodec (patternreplace,  *)
(* patternexpand and a2b applied to argument strings) and SpecMixed (codec *)
(* calls between the unlzp calls of a session).                            *)
(*                                                                         *)
(* Characters are modelled by their code points (ord), strings by          *)
(* sequences of code points.  The 262144-entry table is kept sparsely: a   *)
(* function whose domain is the set of indices holding a non-zero value.   *)
(***************************************************************************)
EXTENDS Integers, Sequences, FiniteSets, TLC

(* ------------------------------ bounds --------------------------------- *)
MaxData == 2
MaxMask == 2
MaxCalls == 2

(* Code points the compressed data stream is built from. *)
DataBytes == {0, 65, 66, 200}
(* Mask bytes the mask stream is built from:                               *)
(* 0 all literal, 255 all predicted, 1 / 3 / 252 mixed.                    *)
MaskBytes == {0, 1, 3, 252, 255}
(* Limits a caller passes. *)
Limits == {2, 8, 9}
Variants == {"refined", "fixed"}

SeqsUpTo(S, n) == UNION {[1..k -> S] : k \in 0..n}

RECURSIVE SumSeq(_)
SumSeq(s) == IF s = <<>> THEN 0 ELSE Head(s) + SumSeq(Tail(s))

(* --------------------------- program constants ------------------------- *)
TableSize == 262144
hash_mask == 262143
NoChar == -1

(* ----------------------------- bit arithmetic --------------------------- *)
RECURSIVE BitXor(_, _)
BitXor(a, b) ==
  IF a = 0 THEN b
  ELSE IF b = 0 THEN a
  ELSE (((a % 2) + (b % 2)) % 2) + 2 * BitXor(a \div 2, b \div 2)

RECURSIVE BitAnd(_, _)
BitAnd(a, b) ==
  IF a = 0 \/ b = 0 THEN 0
  ELSE ((a % 2) * (b % 2)) + 2 * BitAnd(a \div 2, b \div 2)

(* mutation: the bits of the mask byte taken from bit 7 down to bit 0 *)
MaskBit_MsbFirst(mask_byte, bit_index) ==
  BitAnd(mask_byte, 2 ^ (7 - bit_index)) # 0

(* mask_byte & (1 << bit_index) *)
MaskBit(mask_byte, bit_index) == BitAnd(mask_byte, 2 ^ bit_index) # 0

(* mutation: the hash is not masked down to 18 bits *)
HashUpdate_NoMask(h, c) == BitXor(h * 128, c)

(* ((hash_val << 7) ^ char_code) & hash_mask *)
HashUpdate(h, c) == BitAnd(BitXor(h * 128, c), hash_mask)

(* mutation: a cursor moves by two positions *)
AdvanceCursor_ByTwo(pos) == pos + 2

(* pos += 1 *)
AdvanceCursor(pos) == pos + 1

(* len(output) >= limit *)
LimitReached(n, limit) == n >= limit

(* ------------------------------- the table ------------------------------ *)
EmptyTable == [x \in {} |-> 0]

(* self.table[h] *)
TableGet(t, h) == IF h \in DOMAIN t THEN t[h] ELSE 0

(* mutation: the store into the table is lost *)
TableSet_Dropped(t, h, c) == t

(* self.table[h] = c *)
TableSet(t, h, c) ==
  IF c = 0
    THEN [x \in (DOMAIN t) \ {h} |-> t[x]]
    ELSE [x \in (DOMAIN t) \cup {h} |-> IF x = h THEN c ELSE t[x]]

(* ------------------------------- variables ------------------------------ *)
VARIABLES
  variant,            \* which decoder class the session uses
  domains_lzp,        \* the whole compressed data stream
  mask_lzp_decoded,   \* the whole mask stream
  remaining_data,     \* caller: data not yet consumed
  remaining_mask,     \* caller: mask not yet consumed
  leftover,           \* caller: decoded text gathered so far
  request_size,       \* limit of the call in progress
  limits,             \* history: the limits of the calls made so far
  nCalls,             \* number of completed unlzp calls
  table, hash_val,    \* the decoder object's fields
  pc,                 \* "idle" | "while" | "for" | "join" | "return"
  mask_pos, data_pos, \* unlzp locals (maskpos, dpos in the fixed variant)
  output,             \* output (refined) / outfinal (fixed)
  out, outpos,        \* the 8-character buffer of the fixed variant
  mask_byte, bit_index,
  emitted,            \* history: bytes fed to the hash update in this call
  nread,              \* history: mask bytes read in this call
  twin,               \* a second decoder object, with its own caller
  domains,            \* self.domains: zone -> length_key -> count or text
  schedule,           \* history: self.domains as decompress_domains found it
  ddpc,               \* position inside decompress_domains
  zone_idx,           \* the zone the outer loop is at
  entry_idx,          \* the entry of that zone the inner loop is at
  zone_success,       \* local of the outer loop
  stats,              \* self.stats
  visited,            \* history: the entries the inner loop body has run for
  calls,              \* history: the unlzp calls decompress_domains made
  codec_arg,          \* the argument of the first codec call of a pipeline
  codec_result,       \* the string the last codec call returned
  codec_calls,        \* history: the codec functions called, in order
  warned,             \* history: a2b printed its warning in the last call
  app,                \* the SSHTunnelApp object's fields
  procs               \* the handler, threads, tray icons and ssh process

callerVars == <<variant, domains_lzp, mask_lzp_decoded, remaining_data,
                remaining_mask, leftover, nCalls>>
frameVars == <<table, hash_val, pc, mask_pos, data_pos, output, out, outpos,
               mask_byte, bit_index, emitted, nread>>
reqVars == <<request_size, limits>>
twinVars == <<twin>>
ddVars == <<domains, schedule, ddpc, zone_idx, entry_idx, zone_success, stats,
            visited, calls>>
codecVars == <<codec_arg, codec_result, codec_calls, warned>>
guiVars == <<app, procs>>
vars == <<variant, domains_lzp, mask_lzp_decoded, remaining_data,
          remaining_mask, leftover, request_size, limits, nCalls, table,
          hash_val,
          pc, mask_pos, data_pos, output, out, outpos, mask_byte, bit_index,
          emitted, nread, twin, domains, schedule, ddpc, zone_idx, entry_idx,
          zone_success, stats, visited, calls, codec_arg, codec_result,
          codec_calls, warned, app, procs>>

(* --------------------------- frames of a call --------------------------- *)
EmptyBuffer == [k \in 1..8 |-> NoChar]

IdleFrame(t, h) ==
  [pc |-> "idle", table |-> t, hash_val |-> h, mask_pos |-> 0, data_pos |-> 0,
   output |-> <<>>, out |-> EmptyBuffer, outpos |-> 0, mask_byte |-> 0,
   bit_index |-> 0, emitted |-> <<>>, nread |-> 0]

Frame ==
  [pc |-> pc, table |-> table, hash_val |-> hash_val, mask_pos |-> mask_pos,
   data_pos |-> data_pos, output |-> output, out |-> out, outpos |-> outpos,
   mask_byte |-> mask_byte, bit_index |-> bit_index, emitted |-> emitted,
   nread |-> nread]

SetFrame(f) ==
  /\ pc' = f.pc
  /\ table' = f.table
  /\ hash_val' = f.hash_val
  /\ mask_pos' = f.mask_pos
  /\ data_pos' = f.data_pos
  /\ output' = f.output
  /\ out' = f.out
  /\ outpos' = f.outpos
  /\ mask_byte' = f.mask_byte
  /\ bit_index' = f.bit_index
  /\ emitted' = f.emitted
  /\ nread' = f.nread

(* ------------------- LZPDecompressor.unlzp (refined) -------------------- *)
(* lines 146-151: locals, and the hash is reset on every call *)
R_enter(t, h) ==
  [IdleFrame(t, h) EXCEPT !.pc = "while", !.hash_val = 0]

(* mutation: the loop also ends once the data stream is used up *)
R_while_StopsOnData(f, data, mask, limit) ==
  IF /\ f.mask_pos < Len(mask)
     /\ ~LimitReached(Len(f.output), limit)
     /\ f.data_pos < Len(data)
    THEN [f EXCEPT !.mask_byte = mask[f.mask_pos + 1],
                   !.mask_pos = AdvanceCursor(@),
                   !.nread = @ + 1,
                   !.bit_index = 0,
                   !.pc = "for"]
    ELSE [f EXCEPT !.pc = "return"]

(* line 154-160: the while test and the read of the mask byte *)
R_while(f, data, mask, limit) ==
  IF f.mask_pos < Len(mask) /\ ~LimitReached(Len(f.output), limit)
    THEN [f EXCEPT !.mask_byte = mask[f.mask_pos + 1],
                   !.mask_pos = AdvanceCursor(@),
                   !.nread = @ + 1,
                   !.bit_index = 0,
                   !.pc = "for"]
    ELSE [f EXCEPT !.pc = "return"]

(* lines 163-189: one iteration of the for loop over the 8 bits *)
R_for(f, data, mask, limit) ==
  IF LimitReached(Len(f.output), limit)
    THEN [f EXCEPT !.pc = "while"]
    ELSE
      LET predicted == MaskBit(f.mask_byte, f.bit_index)
          exhausted == f.data_pos >= Len(data)
          char_code == IF predicted THEN TableGet(f.table, f.hash_val)
                       ELSE IF exhausted THEN 0
                       ELSE data[f.data_pos + 1]
      IN [f EXCEPT
            !.table = IF predicted THEN @
                      ELSE TableSet(@, f.hash_val, char_code),
            !.data_pos = IF ~predicted /\ ~exhausted
                           THEN AdvanceCursor(@) ELSE @,
            !.output = Append(@, char_code),
            !.emitted = Append(@, char_code),
            !.hash_val = HashUpdate(@, char_code),
            !.bit_index = @ + 1,
            !.pc = IF f.bit_index = 7 THEN "while" ELSE "for"]

R_step(f, data, mask, limit) ==
  IF f.pc = "while" THEN R_while(f, data, mask, limit)
  ELSE R_for(f, data, mask, limit)

RECURSIVE R_run(_, _, _, _)
R_run(f, data, mask, limit) ==
  IF f.pc = "return" THEN f
  ELSE R_run(R_step(f, data, mask, limit), data, mask, limit)

(* mutation: a mask byte whose bits were not all processed is not counted *)
R_result_UnfinishedByte(f) ==
  <<f.output, f.data_pos,
    IF f.bit_index < 8 /\ f.mask_pos > 0 THEN f.mask_pos - 1 ELSE f.mask_pos>>

(* line 194: return ''.join(output), data_pos, mask_pos *)
R_result(f) == <<f.output, f.data_pos, f.mask_pos>>

(* the whole call: the frame at the return statement *)
LZPDecompressor_unlzp(t, h, data, mask, limit) ==
  R_run(R_enter(t, h), data, mask, limit)

(* ------------------- FixedLZPDecompressor.unlzp (fixed) ----------------- *)
(* lines 134-143: locals; the hash is NOT reset *)
F_enter(t, h) ==
  [IdleFrame(t, h) EXCEPT !.pc = "while"]

(* mutation: the buffer is added at the end also when it is full *)
F_exit_FullBufferToo(f) ==
  [f EXCEPT !.output = IF f.outpos > 0
                         THEN @ \o SubSeq(f.out, 1, f.outpos) ELSE @,
            !.pc = "return"]

(* lines 199-206: flush of a partial buffer, then return *)
F_exit(f) ==
  [f EXCEPT !.output = IF f.outpos < 8 /\ f.outpos > 0
                         THEN @ \o SubSeq(f.out, 1, f.outpos) ELSE @,
            !.pc = "return"]

(* mutation: the mask cursor is not advanced after the read *)
F_while_CursorStays(f, data, mask, limit) ==
  IF f.mask_pos >= Len(mask)
    THEN F_exit(f)
    ELSE [f EXCEPT !.mask_byte = mask[f.mask_pos + 1],
                   !.nread = @ + 1,
                   !.outpos = 0,
                   !.bit_index = 0,
                   !.pc = "for"]

(* lines 146-159: loop head; "if not mask_char" never holds for a          *)
(* one-character string, so that break is dead                            *)
F_while(f, data, mask, limit) ==
  IF f.mask_pos >= Len(mask)
    THEN F_exit(f)
    ELSE [f EXCEPT !.mask_byte = mask[f.mask_pos + 1],
                   !.mask_pos = AdvanceCursor(@),
                   !.nread = @ + 1,
                   !.outpos = 0,
                   !.bit_index = 0,
                   !.pc = "for"]

(* lines 162-189: one iteration of the for loop over the 8 bits *)
F_for(f, data, mask, limit) ==
  LET predicted == MaskBit(f.mask_byte, f.bit_index)
      exhausted == f.data_pos >= Len(data)
  IN IF ~predicted /\ exhausted
       THEN [f EXCEPT !.pc = "join"]
       ELSE
         LET c == IF predicted THEN TableGet(f.table, f.hash_val)
                  ELSE data[f.data_pos + 1]
         IN [f EXCEPT
               !.table = IF predicted THEN @ ELSE TableSet(@, f.hash_val, c),
               !.data_pos = IF predicted THEN @ ELSE AdvanceCursor(@),
               !.out = [@ EXCEPT ![f.outpos + 1] = c],
               !.outpos = @ + 1,
               !.emitted = Append(@, c),
               !.hash_val = HashUpdate(@, c),
               !.bit_index = @ + 1,
               !.pc = IF f.bit_index = 7 THEN "join" ELSE "for"]

(* lines 191-197: join a full buffer, then the limit test *)
F_join(f, data, mask, limit) ==
  LET g == [f EXCEPT !.output = IF f.outpos = 8 THEN @ \o f.out ELSE @]
  IN IF LimitReached(Len(g.output), limit)
       THEN F_exit(g)
       ELSE [g EXCEPT !.pc = "while"]

F_step(f, data, mask, limit) ==
  IF f.pc = "while" THEN F_while(f, data, mask, limit)
  ELSE IF f.pc = "for" THEN F_for(f, data, mask, limit)
  ELSE F_join(f, data, mask, limit)

RECURSIVE F_run(_, _, _, _)
F_run(f, data, mask, limit) ==
  IF f.pc = "return" THEN f
  ELSE F_run(F_step(f, data, mask, limit), data, mask, limit)

(* line 206: return outfinal, dpos, maskpos *)
F_result(f) == <<f.output, f.data_pos, f.mask_pos>>

(* the whole call: the frame at the return statement *)
FixedLZPDecompressor_unlzp(t, h, data, mask, limit) ==
  F_run(F_enter(t, h), data, mask, limit)

(* ------------------------------ the session ----------------------------- *)
(* LZPDecompressor() / FixedLZPDecompressor(): the fields __init__ sets *)
NewDecoder == [table |-> EmptyTable, hash_val |-> 0]

(* a second decoder object and the working copies of its caller *)
NewTwin(data, mask) ==
  [table |-> NewDecoder.table, hash_val |-> NewDecoder.hash_val,
   remaining_data |-> data, remaining_mask |-> mask, leftover |-> <<>>,
   nCalls |-> 0]

(* self.stats as the decompiler's __init__ sets it *)
NewStats ==
  [total_zones |-> 0, total_domains_decompressed |-> 0,
   decompression_errors |-> 0, successful_zones |-> 0]

(* decompress_domains is not running and no schedule is loaded *)
NoDecompressDomains ==
  /\ domains = <<>>
  /\ schedule = <<>>
  /\ ddpc = "none"
  /\ zone_idx = 0
  /\ entry_idx = 0
  /\ zone_success = TRUE
  /\ stats = NewStats
  /\ visited = <<>>
  /\ calls = <<>>

(* no SSHTunnelApp object exists *)
NoApp ==
  /\ app = <<>>
  /\ procs = <<>>

(* no codec function has been called *)
NoCodecCall ==
  /\ codec_arg = <<>>
  /\ codec_result = <<>>
  /\ codec_calls = <<>>
  /\ warned = FALSE

(* a fresh decoder object with no call in progress *)
FreshDecoderIdle ==
  /\ table = NewDecoder.table
  /\ hash_val = NewDecoder.hash_val
  /\ pc = "idle"
  /\ mask_pos = 0
  /\ data_pos = 0
  /\ output = <<>>
  /\ out = EmptyBuffer
  /\ outpos = 0
  /\ mask_byte = 0
  /\ bit_index = 0
  /\ emitted = <<>>
  /\ nread = 0

Init ==
  /\ variant \in Variants
  /\ domains_lzp \in SeqsUpTo(DataBytes, MaxData)
  /\ mask_lzp_decoded \in SeqsUpTo(MaskBytes, MaxMask)
  /\ remaining_data = domains_lzp
  /\ remaining_mask = mask_lzp_decoded
  /\ leftover = <<>>
  /\ request_size = 0
  /\ limits = <<>>
  /\ nCalls = 0
  /\ table = EmptyTable
  /\ hash_val = 0
  /\ pc = "idle"
  /\ mask_pos = 0
  /\ data_pos = 0
  /\ output = <<>>
  /\ out = EmptyBuffer
  /\ outpos = 0
  /\ mask_byte = 0
  /\ bit_index = 0
  /\ emitted = <<>>
  /\ nread = 0
  /\ twin = NewTwin(domains_lzp, mask_lzp_decoded)
  /\ NoCodecCall
  /\ NoDecompressDomains
  /\ NoApp

(* the caller invokes unlzp(remaining_data, remaining_mask, limit) *)
CallUnlzp(limit) ==
  /\ pc = "idle"
  /\ nCalls < MaxCalls
  /\ request_size' = limit
  /\ limits' = Append(limits, limit)
  /\ SetFrame(IF variant = "refined" THEN R_enter(table, hash_val)
                                   ELSE F_enter(table, hash_val))
  /\ UNCHANGED <<callerVars, twinVars, codecVars, guiVars, ddVars>>

RefinedWhile ==
  /\ variant = "refined" /\ pc = "while"
  /\ SetFrame(R_while(Frame, remaining_data, remaining_mask, request_size))
  /\ UNCHANGED <<callerVars, reqVars, twinVars, codecVars, guiVars, ddVars>>

RefinedFor ==
  /\ variant = "refined" /\ pc = "for"
  /\ SetFrame(R_for(Frame, remaining_data, remaining_mask, request_size))
  /\ UNCHANGED <<callerVars, reqVars, twinVars, codecVars, guiVars, ddVars>>

FixedWhile ==
  /\ variant = "fixed" /\ pc = "while"
  /\ SetFrame(F_while(Frame, remaining_data, remaining_mask, request_size))
  /\ UNCHANGED <<callerVars, reqVars, twinVars, codecVars, guiVars, ddVars>>

FixedFor ==
  /\ variant = "fixed" /\ pc = "for"
  /\ SetFrame(F_for(Frame, remaining_data, remaining_mask, request_size))
  /\ UNCHANGED <<callerVars, reqVars, twinVars, codecVars, guiVars, ddVars>>

FixedJoin ==
  /\ variant = "fixed" /\ pc = "join"
  /\ SetFrame(F_join(Frame, remaining_data, remaining_mask, request_size))
  /\ UNCHANGED <<callerVars, reqVars, twinVars, codecVars, guiVars, ddVars>>

(* the tuple the call in progress returns, read at pc = "return" *)
ReturnValue ==
  IF variant = "refined" THEN R_result(Frame) ELSE F_result(Frame)

(* mutation: one character more than asked is dropped *)
DropPrefix_OneMore(s, n) == SubSeq(s, n + 2, Len(s))

(* s[n:] *)
DropPrefix(s, n) == SubSeq(s, n + 1, Len(s))

(* the caller takes (decompressed, data_used, mask_used) and slices *)
UpdateStreams ==
  /\ pc = "return"
  /\ LET decompressed == ReturnValue[1]
         data_used == ReturnValue[2]
         mask_used == ReturnValue[3]
     IN /\ remaining_data' = DropPrefix(remaining_data, data_used)
        /\ remaining_mask' = DropPrefix(remaining_mask, mask_used)
        /\ leftover' = leftover \o decompressed
  /\ nCalls' = nCalls + 1
  /\ SetFrame(IdleFrame(table, hash_val))
  /\ UNCHANGED <<variant, domains_lzp, mask_lzp_decoded, reqVars, twinVars,
                 codecVars, guiVars,
                 ddVars>>

Next ==
  \/ \E limit \in Limits : CallUnlzp(limit)
  \/ RefinedWhile
  \/ RefinedFor
  \/ FixedWhile
  \/ FixedFor
  \/ FixedJoin
  \/ UpdateStreams

Spec == Init /\ [][Next]_vars

(* ------------------- two decoder objects, whole calls ------------------- *)
(* Sample streams: "!As", "!AsV!BmI" and "A" as data; masks with all bits  *)
(* literal (0), three literals then predictions (248), a prediction first  *)
(* (1), and two-byte masks.                                                *)
SampleData == {<<>>, <<65>>, <<33, 65, 115>>,
               <<33, 65, 115, 86, 33, 66, 109, 73>>}
SampleMasks == {<<>>, <<0>>, <<248>>, <<0, 255>>, <<1, 0>>}

localVars == <<pc, mask_pos, data_pos, output, out, outpos, mask_byte,
               bit_index, emitted, nread>>

(* self.lzp_decompressor.unlzp(data, mask, limit) on a decoder whose       *)
(* fields are t and h: the frame at the return statement                   *)
Unlzp(t, h, data, mask, limit) ==
  IF variant = "refined" THEN LZPDecompressor_unlzp(t, h, data, mask, limit)
  ELSE FixedLZPDecompressor_unlzp(t, h, data, mask, limit)

(* mutation: the table is an attribute of the class, shared by all objects *)
TwinTable_Shared == table

(* self.table of the second decoder object *)
TwinTable == twin.table

InitTwin ==
  /\ variant \in Variants
  /\ domains_lzp \in SampleData
  /\ mask_lzp_decoded \in SampleMasks
  /\ remaining_data = domains_lzp
  /\ remaining_mask = mask_lzp_decoded
  /\ leftover = <<>>
  /\ request_size = 0
  /\ limits = <<>>
  /\ nCalls = 0
  /\ FreshDecoderIdle
  /\ twin = NewTwin(domains_lzp, mask_lzp_decoded)
  /\ NoCodecCall
  /\ NoDecompressDomains
  /\ NoApp

(* the first decoder's caller makes one more call, with a limit it picks *)
FirstDecoderCall(limit) ==
  /\ nCalls < MaxCalls
  /\ LET f == Unlzp(table, hash_val, remaining_data, remaining_mask, limit)
     IN /\ table' = f.table
        /\ hash_val' = f.hash_val
        /\ remaining_data' = DropPrefix(remaining_data, f.data_pos)
        /\ remaining_mask' = DropPrefix(remaining_mask, f.mask_pos)
        /\ leftover' = leftover \o f.output
  /\ limits' = Append(limits, limit)
  /\ nCalls' = nCalls + 1
  /\ UNCHANGED <<variant, domains_lzp, mask_lzp_decoded, request_size,
                 localVars, twinVars, codecVars, guiVars, ddVars>>

(* the second decoder's caller makes its next call, with the limit the     *)
(* first caller used for the call of the same rank                         *)
SecondDecoderCall ==
  /\ twin.nCalls < Len(limits)
  /\ LET limit == limits[twin.nCalls + 1]
         f == Unlzp(TwinTable, twin.hash_val, twin.remaining_data,
                    twin.remaining_mask, limit)
     IN twin' = [table |-> f.table,
                 hash_val |-> f.hash_val,
                 remaining_data |-> DropPrefix(twin.remaining_data, f.data_pos),
                 remaining_mask |-> DropPrefix(twin.remaining_mask, f.mask_pos),
                 leftover |-> twin.leftover \o f.output,
                 nCalls |-> twin.nCalls + 1]
  /\ UNCHANGED <<callerVars, frameVars, reqVars, ddVars, codecVars, guiVars>>

NextTwin ==
  \/ \E limit \in Limits : FirstDecoderCall(limit)
  \/ SecondDecoderCall

SpecTwin == InitTwin /\ [][NextTwin]_vars

(* ------------------------------- strings -------------------------------- *)
(* mutation: a key that ends the string is not found *)
Occurs_NotAtEnd(key, s) ==
  \E i \in 1..(Len(s) - Len(key)) : SubSeq(s, i, i + Len(key) - 1) = key

(* key in s *)
Occurs(key, s) ==
  \E i \in 1..(Len(s) - Len(key) + 1) : SubSeq(s, i, i + Len(key) - 1) = key

(* the scan of str.replace: the occurrences of key, found left to right    *)
(* and not overlapping, are replaced by value                              *)
RECURSIVE ReplaceScan(_, _, _)
ReplaceScan(s, key, value) ==
  IF Len(s) < Len(key) THEN s
  ELSE IF SubSeq(s, 1, Len(key)) = key
    THEN value \o ReplaceScan(SubSeq(s, Len(key) + 1, Len(s)), key, value)
    ELSE <<Head(s)>> \o ReplaceScan(Tail(s), key, value)

(* mutation: only the first occurrence of key is replaced *)
Replace_FirstOnly(s, key, value) ==
  IF Occurs(key, s)
    THEN LET first == CHOOSE i \in 1..(Len(s) - Len(key) + 1) :
                        /\ SubSeq(s, i, i + Len(key) - 1) = key
                        /\ \A j \in 1..(i - 1) :
                             SubSeq(s, j, j + Len(key) - 1) # key
         IN SubSeq(s, 1, first - 1) \o value
              \o SubSeq(s, first + Len(key), Len(s))
    ELSE s

(* s.replace(key, value); a string without the key is returned as it is *)
Replace(s, key, value) ==
  IF Occurs(key, s) THEN ReplaceScan(s, key, value) ELSE s

(* LZPDecompressor.patternexpand, lines 88-106: the 50 two-character codes *)
(* "!X" and then the 50 one-character codes, each with its expansion       *)
patterns_ordered ==
  << <<<<33, 65>>, <<112, 111, 114, 110>>>>,
    <<<<33, 66>>, <<102, 105, 108, 109>>>>,
    <<<<33, 67>>, <<108, 111, 114, 100>>>>,
    <<<<33, 68>>, <<107, 105, 110, 111>>>>,
    <<<<33, 69>>, <<111, 107, 101, 114>>>>,
    <<<<33, 70>>, <<116, 114, 97, 100>>>>,
    <<<<33, 71>>, <<108, 105, 110, 101>>>>,
    <<<<33, 72>>, <<103, 97, 109, 101>>>>,
    <<<<33, 73>>, <<112, 100, 111, 109>>>>,
    <<<<33, 74>>, <<116, 105, 111, 110>>>>,
    <<<<33, 75>>, <<46, 99, 111, 109>>>>,
    <<<<33, 76>>, <<108, 101, 111, 110>>>>,
    <<<<33, 77>>, <<112, 111, 114, 116>>>>,
    <<<<33, 78>>, <<115, 104, 111, 112>>>>,
    <<<<33, 79>>, <<99, 108, 117, 98>>>>,
    <<<<33, 80>>, <<112, 114, 97, 118>>>>,
    <<<<33, 81>>, <<118, 101, 115, 116>>>>,
    <<<<33, 82>>, <<105, 110, 99, 111>>>>,
    <<<<33, 83>>, <<109, 97, 114, 107>>>>,
    <<<<33, 84>>, <<105, 116, 97, 108>>>>,
    <<<<33, 85>>, <<115, 108, 111, 116>>>>,
    <<<<33, 86>>, <<112, 108, 97, 121>>>>,
    <<<<33, 87>>, <<101, 114, 105, 97>>>>,
    <<<<33, 88>>, <<114, 117, 115, 115>>>>,
    <<<<33, 89>>, <<118, 105, 100, 101>>>>,
    <<<<33, 90>>, <<116, 117, 98, 101>>>>,
    <<<<33, 64>>, <<109, 101, 100, 105>>>>,
    <<<<33, 35>>, <<115, 116, 101, 114>>>>,
    <<<<33, 36>>, <<115, 116, 97, 114>>>>,
    <<<<33, 37>>, <<110, 116, 101, 114>>>>,
    <<<<33, 94>>, <<115, 99, 104, 111>>>>,
    <<<<33, 38>>, <<102, 114, 101, 101>>>>,
    <<<<33, 42>>, <<101, 110, 116, 97>>>>,
    <<<<33, 40>>, <<98, 101, 115, 116>>>>,
    <<<<33, 41>>, <<109, 101, 103, 97>>>>,
    <<<<33, 61>>, <<103, 97, 109, 97>>>>,
    <<<<33, 43>>, <<112, 114, 111, 102>>>>,
    <<<<33, 47>>, <<111, 110, 101, 121>>>>,
    <<<<33, 44>>, <<114, 121, 112, 116>>>>,
    <<<<33, 60>>, <<107, 114, 97, 51>>>>,
    <<<<33, 62>>, <<115, 116, 111, 114>>>>,
    <<<<33, 126>>, <<116, 117, 114, 101>>>>,
    <<<<33, 91>>, <<116, 101, 99, 104>>>>,
    <<<<33, 93>>, <<97, 110, 99, 101>>>>,
    <<<<33, 123>>, <<99, 111, 105, 110>>>>,
    <<<<33, 125>>, <<115, 101, 101, 100>>>>,
    <<<<33, 96>>, <<97, 110, 105, 109>>>>,
    <<<<33, 58>>, <<115, 116, 114, 111>>>>,
    <<<<33, 59>>, <<109, 101, 110, 116>>>>,
    <<<<33, 63>>, <<115, 105, 116, 101>>>>, <<<<65>>, <<105, 110>>>>,
    <<<<66>>, <<97, 110>>>>, <<<<67>>, <<101, 114>>>>,
    <<<<68>>, <<97, 114>>>>, <<<<69>>, <<111, 114>>>>,
    <<<<70>>, <<101, 116>>>>, <<<<71>>, <<97, 108>>>>,
    <<<<72>>, <<115, 116>>>>, <<<<73>>, <<111, 110>>>>,
    <<<<74>>, <<101, 110>>>>, <<<<75>>, <<97, 116>>>>,
    <<<<76>>, <<114, 111>>>>, <<<<77>>, <<101, 115>>>>,
    <<<<78>>, <<97, 115>>>>, <<<<79>>, <<101, 108>>>>,
    <<<<80>>, <<105, 116>>>>, <<<<81>>, <<99, 104>>>>,
    <<<<82>>, <<97, 109>>>>, <<<<83>>, <<111, 108>>>>,
    <<<<84>>, <<111, 109>>>>, <<<<85>>, <<114, 97>>>>,
    <<<<86>>, <<101, 120>>>>, <<<<87>>, <<105, 115>>>>,
    <<<<88>>, <<105, 99>>>>, <<<<89>>, <<114, 101>>>>,
    <<<<90>>, <<111, 115>>>>, <<<<64>>, <<107, 97>>>>,
    <<<<35>>, <<111, 116>>>>, <<<<36>>, <<117, 115>>>>,
    <<<<37>>, <<97, 112>>>>, <<<<94>>, <<111, 118>>>>,
    <<<<38>>, <<105, 109>>>>, <<<<42>>, <<45, 115>>>>,
    <<<<40>>, <<97, 100>>>>, <<<<41>>, <<105, 108>>>>,
    <<<<61>>, <<111, 112>>>>, <<<<43>>, <<101, 100>>>>,
    <<<<47>>, <<101, 109>>>>, <<<<44>>, <<97, 45>>>>,
    <<<<60>>, <<111, 100>>>>, <<<<62>>, <<105, 114>>>>,
    <<<<126>>, <<105, 100>>>>, <<<<91>>, <<111, 98>>>>,
    <<<<93>>, <<97, 103>>>>, <<<<123>>, <<105, 103>>>>,
    <<<<125>>, <<105, 112>>>>, <<<<96>>, <<111, 107>>>>,
    <<<<58>>, <<101, 45>>>>, <<<<59>>, <<101, 99>>>>,
    <<<<63>>, <<117, 110>>>> >>

(* lines 109-112: the replacements are applied one after the other, each   *)
(* to the result of the one before.  ExpandRange applies the patterns      *)
(* numbered lo..hi in that order; the result of the first half is bound    *)
(* as a value (r) before the second half is applied to it.                 *)
(* mutation: the one-character codes are listed before the "!X" codes *)
PatternAt_SinglesFirst(i) ==
  patterns_ordered[IF 2 * i <= Len(patterns_ordered)
                     THEN i + Len(patterns_ordered) \div 2
                     ELSE i - Len(patterns_ordered) \div 2]

(* line 111: the i-th (pattern_key, pattern_value) the for loop yields *)
PatternAt(i) == patterns_ordered[i]

RECURSIVE ExpandRange(_, _, _)
ExpandRange(result, lo, hi) ==
  IF lo > hi THEN result
  ELSE IF lo = hi
    THEN Replace(result, PatternAt(lo)[1], PatternAt(lo)[2])
    ELSE LET mid == (lo + hi) \div 2
         IN CHOOSE expanded \in
              {ExpandRange(r, mid + 1, hi) :
                 r \in {ExpandRange(result, lo, mid)}} : TRUE

(* mutation: the string ends at its first chr(0) *)
patternexpand_NulTerminated(s) ==
  ExpandRange(IF \E i \in 1..Len(s) : s[i] = 0
                THEN SubSeq(s, 1, (CHOOSE i \in 1..Len(s) :
                                     s[i] = 0 /\ \A j \in 1..(i - 1) : s[j] # 0) - 1)
                ELSE s,
              1, Len(patterns_ordered))

(* lines 108-114: result = s, then the loop over patterns_ordered *)
patternexpand(s) == ExpandRange(s, 1, Len(patterns_ordered))

(* str(n) for n >= 0 *)
RECURSIVE Decimal(_)
Decimal(n) ==
  IF n < 10 THEN <<48 + n>> ELSE Decimal(n \div 10) \o <<48 + (n % 10)>>

(* mutation: only the missing amount is recorded *)
ErrorText_MissingOnly(need, got) ==
  <<60, 76, 90, 80, 95, 69, 82, 82, 79, 82, 58, 32, 110, 101, 101, 100, 32>>
    \o Decimal(need - got) \o <<62>>

(* f"<LZP_ERROR: need {required_chars}, got {len(leftover)}>" *)
ErrorText(need, got) ==
  <<60, 76, 90, 80, 95, 69, 82, 82, 79, 82, 58, 32, 110, 101, 101, 100, 32>>
    \o Decimal(need) \o <<44, 32, 103, 111, 116, 32>> \o Decimal(got)
    \o <<62>>

(* -------------------------------- the codec ----------------------------- *)
(* patternreplace, lines 50-54: the dict of the mask alphabet, 15 pairs    *)
(* code: symbol in insertion order                                         *)
lzpmask_patterns ==
  << <<<<65, 65>>, <<33>>>>,
    <<<<103, 65>>, <<64>>>>,
    <<<<65, 66>>, <<35>>>>,
    <<<<65, 81>>, <<36>>>>,
    <<<<65, 69>>, <<37>>>>,
    <<<<65, 67>>, <<94>>>>,
    <<<<65, 73>>, <<42>>>>,
    <<<<65, 103>>, <<40>>>>,
    <<<<65, 68>>, <<41>>>>,
    <<<<65, 119>>, <<91>>>>,
    <<<<65, 77>>, <<93>>>>,
    <<<<66, 103>>, <<45>>>>,
    <<<<67, 65>>, <<44>>>>,
    <<<<73, 65>>, <<46>>>>,
    <<<<66, 65>>, <<63>>>> >>

(* lines 49-60: the dict the loop runs over.  Without lzpmask the refined  *)
(* class has no pattern, the fixed class the 100 domain patterns           *)
patterns(lzpmask) ==
  IF lzpmask THEN lzpmask_patterns
  ELSE IF variant = "fixed" THEN patterns_ordered ELSE <<>>

(* for key, value in pats: result = result.replace(key, value) *)
RECURSIVE ReplaceKeys(_, _, _, _)
ReplaceKeys(result, pats, lo, hi) ==
  IF lo > hi THEN result
  ELSE IF lo = hi THEN Replace(result, pats[lo][1], pats[lo][2])
    ELSE LET mid == (lo + hi) \div 2
         IN CHOOSE replaced \in
              {ReplaceKeys(r, pats, mid + 1, hi) :
                 r \in {ReplaceKeys(result, pats, lo, mid)}} : TRUE

(* for key, value in pats: result = result.replace(value, key) *)
RECURSIVE ReplaceValues(_, _, _, _)
ReplaceValues(result, pats, lo, hi) ==
  IF lo > hi THEN result
  ELSE IF lo = hi THEN Replace(result, pats[lo][2], pats[lo][1])
    ELSE LET mid == (lo + hi) \div 2
         IN CHOOSE replaced \in
              {ReplaceValues(r, pats, mid + 1, hi) :
                 r \in {ReplaceValues(result, pats, lo, mid)}} : TRUE

(* mutation: the loop replaces each symbol by its code, as patternreplace  *)
(* does                                                                    *)
patternreplace_OLD_ValueToKey(s, lzpmask) ==
  IF lzpmask THEN ReplaceValues(s, lzpmask_patterns, 1, Len(lzpmask_patterns))
  ELSE s

(* test_patternreplace.py, patternreplace_OLD: every code becomes its      *)
(* symbol; without lzpmask the dict is empty                               *)
patternreplace_OLD(s, lzpmask) ==
  IF lzpmask THEN ReplaceKeys(s, lzpmask_patterns, 1, Len(lzpmask_patterns))
  ELSE s

(* mutation: the loop replaces each key by its value *)
patternreplace_KeyToValue(s, lzpmask) ==
  ReplaceKeys(s, patterns(lzpmask), 1, Len(patterns(lzpmask)))

(* patternreplace, lines 62-67: every value is replaced by its key *)
patternreplace(s, lzpmask) ==
  ReplaceValues(s, patterns(lzpmask), 1, Len(patterns(lzpmask)))

(* binascii's table_a2b_base64: the 6-bit value of a character, 64 for a   *)
(* character outside the base64 alphabet                                   *)
Base64Value(c) ==
  IF c >= 65 /\ c <= 90 THEN c - 65
  ELSE IF c >= 97 /\ c <= 122 THEN c - 71
  ELSE IF c >= 48 /\ c <= 57 THEN c + 4
  ELSE IF c = 43 THEN 62
  ELSE IF c = 47 THEN 63
  ELSE 64

(* binascii.a2b_base64 in its default, non-strict mode, from character i   *)
(* on: '=' ends the input once it completes a quad, other characters       *)
(* outside the alphabet are skipped, and an incomplete quad is an error    *)
RECURSIVE a2b_base64(_, _, _, _, _, _)
a2b_base64(s, i, quad_pos, leftchar, pads, bin) ==
  IF i > Len(s) THEN [ok |-> quad_pos = 0, bytes |-> bin]
  ELSE IF s[i] = 61
    THEN IF quad_pos >= 2 /\ quad_pos + pads + 1 >= 4
           THEN [ok |-> TRUE, bytes |-> bin]
           ELSE a2b_base64(s, i + 1, quad_pos, leftchar,
                           IF quad_pos >= 2 THEN pads + 1 ELSE pads, bin)
    ELSE IF Base64Value(s[i]) = 64
      THEN a2b_base64(s, i + 1, quad_pos, leftchar, pads, bin)
      ELSE LET v == Base64Value(s[i])
           IN CASE quad_pos = 0 -> a2b_base64(s, i + 1, 1, v, 0, bin)
                [] quad_pos = 1 ->
                     a2b_base64(s, i + 1, 2, v % 16, 0,
                                Append(bin, leftchar * 4 + v \div 16))
                [] quad_pos = 2 ->
                     a2b_base64(s, i + 1, 3, v % 4, 0,
                                Append(bin, leftchar * 16 + v \div 4))
                [] quad_pos = 3 ->
                     a2b_base64(s, i + 1, 0, 0, 0,
                                Append(bin, leftchar * 64 + v))

(* base64.b64decode(s) of a str: the string is encoded as ASCII first,     *)
(* which fails on a character above 127                                    *)
b64decode(s) ==
  IF \E i \in 1..Len(s) : s[i] > 127 THEN [ok |-> FALSE, bytes |-> <<>>]
  ELSE a2b_base64(s, 1, 0, 0, 0, <<>>)

(* mutation: the string is decoded without padding *)
Padded_Never(processed) == processed

(* a2b, lines 126-128: '=' up to the next multiple of 4 *)
Padded(processed) ==
  IF Len(processed) % 4 = 0 THEN processed
  ELSE processed \o [i \in 1..(4 - (Len(processed) % 4)) |-> 61]

(* mutation: the string is decoded without the substitution before it *)
a2b_NoSubstitution(encoded) ==
  CHOOSE r \in
    {IF decoded.ok THEN [result |-> decoded.bytes, warning |-> FALSE]
                   ELSE [result |-> <<>>, warning |-> TRUE] :
       decoded \in {b64decode(Padded(encoded))}} : TRUE

(* a2b, lines 122-137: the decoded text, or '' and a printed warning when  *)
(* anything inside the try block raised                                    *)
a2b(encoded) ==
  CHOOSE r \in
    {IF decoded.ok THEN [result |-> decoded.bytes, warning |-> FALSE]
                   ELSE [result |-> <<>>, warning |-> TRUE] :
       decoded \in {b64decode(Padded(patternreplace(encoded, TRUE)))}} : TRUE

(* ---------------------- codec functions, called alone ------------------- *)
(* Characters the argument strings are built from: chr(0), '!', 'A' (a     *)
(* code, a base64 character and a letter of the mask codes) and 's'.       *)
CodecAlphabet == {0, 33, 65, 115}

(* Argument strings of the repository's own experiments, base64 text with  *)
(* and without padding, and strings with a character outside ASCII.        *)
CodecSamples ==
  {<<72, 101, 108, 108, 111, 33, 87, 111, 114, 108, 100, 64, 84, 101, 115, 116, 35>>,
   <<115, 86>>,
   <<109, 73>>,
   <<64, 103, 119>>,
   <<78, 104, 99>>,
   <<33, 103, 119, 107, 114>>,
   <<81, 85, 74, 68>>,
   <<81, 81>>,
   <<81, 85, 73>>,
   <<81, 85, 73, 61>>,
   <<81, 81, 61, 65>>,
   <<81, 61, 81, 81>>,
   <<81, 85, 74, 68, 81>>,
   <<65, 81, 73, 68>>,
   <<33, 33, 65>>,
   <<65, 33>>,
   <<115, 0, 86, 0>>,
   <<112, 111, 114, 110>>,
   <<115, 101, 120, 105, 110>>,
   <<200>>,
   <<65, 200>>,
   <<65, 61>>,
   <<61, 61>>}

(* Longest argument string built from the alphabet. *)
MaxText == 3
(* Longest pipeline of codec calls, each fed the result of the one before. *)
MaxPipeline == 2

(* every code and every symbol of the two tables is an argument as well *)
CodecInputs ==
  SeqsUpTo(CodecAlphabet, MaxText) \cup CodecSamples
    \cup {patterns_ordered[i][1] : i \in 1..Len(patterns_ordered)}
    \cup {lzpmask_patterns[i][1] : i \in 1..Len(lzpmask_patterns)}
    \cup {lzpmask_patterns[i][2] : i \in 1..Len(lzpmask_patterns)}

(* a decoder object nobody has called unlzp on, and an argument string *)
InitCodec ==
  /\ variant \in Variants
  /\ codec_arg \in CodecInputs
  /\ codec_result = codec_arg
  /\ codec_calls = <<>>
  /\ warned = FALSE
  /\ domains_lzp = <<>>
  /\ mask_lzp_decoded = <<>>
  /\ remaining_data = <<>>
  /\ remaining_mask = <<>>
  /\ leftover = <<>>
  /\ request_size = 0
  /\ limits = <<>>
  /\ nCalls = 0
  /\ FreshDecoderIdle
  /\ twin = NewTwin(<<>>, <<>>)
  /\ NoDecompressDomains
  /\ NoApp

(* mutation: a codec call re-creates the decoder's table and hash *)
SelfAfterCodec_Reset == NewDecoder

(* the fields of self after a codec call: no codec function assigns one *)
SelfAfterCodec == [table |-> table, hash_val |-> hash_val]

(* the call name(codec_result) returns r; w tells whether it warned *)
CodecReturn(name, r, w) ==
  /\ pc = "idle"
  /\ Len(codec_calls) < MaxPipeline
  /\ codec_calls' = Append(codec_calls, name)
  /\ codec_result' = r
  /\ warned' = w
  /\ table' = SelfAfterCodec.table
  /\ hash_val' = SelfAfterCodec.hash_val
  /\ UNCHANGED <<codec_arg, callerVars, reqVars, twinVars, ddVars, guiVars, pc,
                 mask_pos, data_pos, output, out, outpos, mask_byte,
                 bit_index, emitted, nread>>

Call_patternreplace ==
  \E lzpmask \in BOOLEAN :
    CodecReturn(IF lzpmask THEN "patternreplace_lzpmask" ELSE "patternreplace",
                patternreplace(codec_result, lzpmask), FALSE)

Call_patternreplace_OLD ==
  CodecReturn("patternreplace_OLD", patternreplace_OLD(codec_result, TRUE),
              FALSE)

(* only LZPDecompressor has the method *)
Call_patternexpand ==
  /\ variant = "refined"
  /\ CodecReturn("patternexpand", patternexpand(codec_result), FALSE)

Call_a2b ==
  \E r \in {a2b(codec_result)} : CodecReturn("a2b", r.result, r.warning)

NextCodec ==
  \/ Call_patternreplace
  \/ Call_patternreplace_OLD
  \/ Call_patternexpand
  \/ Call_a2b

SpecCodec == InitCodec /\ [][NextCodec]_vars

(* ------------- codec calls between the unlzp calls of a session --------- *)
(* Argument of the first codec call: "!A", which patternreplace, a2b and   *)
(* patternexpand all change.                                               *)
MixedArgs == {<<33, 65>>}
(* Mask stream of the session: 3 literal bits, then 5 predicted bits. *)
MixedMasks == {<<248>>}

(* two fresh decoder objects with the same streams, and an argument string *)
InitMixed ==
  /\ variant \in Variants
  /\ domains_lzp = <<33, 65, 115>>
  /\ mask_lzp_decoded \in MixedMasks
  /\ remaining_data = domains_lzp
  /\ remaining_mask = mask_lzp_decoded
  /\ leftover = <<>>
  /\ request_size = 0
  /\ limits = <<>>
  /\ nCalls = 0
  /\ FreshDecoderIdle
  /\ twin = NewTwin(domains_lzp, mask_lzp_decoded)
  /\ codec_arg \in MixedArgs
  /\ codec_result = codec_arg
  /\ codec_calls = <<>>
  /\ warned = FALSE
  /\ NoDecompressDomains
  /\ NoApp

(* the first decoder object serves unlzp calls and codec calls in any      *)
(* order; the second one serves the same unlzp calls and no codec call     *)
NextMixed ==
  \/ \E limit \in Limits : FirstDecoderCall(limit)
  \/ SecondDecoderCall
  \/ Call_patternreplace
  \/ Call_patternreplace_OLD
  \/ Call_patternexpand
  \/ Call_a2b

SpecMixed == InitMixed /\ [][NextMixed]_vars

(* --------------------------- decompress_domains ------------------------- *)
(* self.domains is a dict zone -> dict length_key -> value, iterated in    *)
(* insertion order: a sequence of zones, each a sequence of entries.  A    *)
(* value is an int (the required count) or a str.                          *)
MaxZones == 2
MaxEntries == 2

(* the floor of the number of characters asked from unlzp *)
MinRequest == 8192

(* Required counts: 0 is skipped, 4 and 10 can be served from one or two   *)
(* mask bytes, 9000 exceeds the floor of the request.                      *)
Counts == {0, 4, 10, 9000}

IntValue(n) == [kind |-> "int", val |-> n]
StrValue(s) == [kind |-> "str", val |-> s]

(* the entries of one zone whose counts are cs; the k-th length key of a   *)
(* zone is k + 1                                                           *)
ZoneOf(cs) ==
  [k \in 1..Len(cs) |-> [length_key |-> k + 1, value |-> IntValue(cs[k])]]

(* the schedule whose zones hold sizes[1], sizes[2], ... entries and whose *)
(* counts, read zone after zone, are cs                                    *)
ScheduleOf(cs, sizes) ==
  [z \in 1..Len(sizes) |->
     ZoneOf(SubSeq(cs, SumSeq(SubSeq(sizes, 1, z - 1)) + 1,
                   SumSeq(SubSeq(sizes, 1, z))))]

(* every schedule of at most MaxZones zones (a zone may be empty) and at   *)
(* most MaxEntries entries in all                                          *)
Schedules ==
  UNION {{ScheduleOf(cs, sizes) :
            sizes \in {x \in SeqsUpTo(0..MaxEntries, MaxZones) :
                         SumSeq(x) = Len(cs)}} :
         cs \in SeqsUpTo(Counts, MaxEntries)}

(* mutation: a count that is not positive is processed as well *)
IsPositiveInt_AnyInt(v) == v.kind = "int"

(* isinstance(count, int) and count > 0 *)
IsPositiveInt(v) == v.kind = "int" /\ v.val > 0

(* mutation: the request ignores the required count *)
RequestSize_FloorOnly(required_chars) == MinRequest

(* max(8192, required_chars); 8192 if dmnl <= 8192 else dmnl *)
RequestSize(required_chars) ==
  IF required_chars > MinRequest THEN required_chars ELSE MinRequest

(* mutation: the slice is taken from the end of leftover, leftover[-n:] *)
TakePrefix_FromEnd(s, n) ==
  SubSeq(s, (IF n < Len(s) THEN Len(s) - n ELSE 0) + 1, Len(s))

(* leftover[:n] *)
TakePrefix(s, n) == SubSeq(s, 1, IF n < Len(s) THEN n ELSE Len(s))

(* mutation: the decoded text replaces leftover instead of extending it *)
Extend_Overwrite(text, decompressed) == decompressed

(* leftover += decompressed *)
Extend(text, decompressed) == text \o decompressed

(* mutation: only the first half of the slice is stored *)
StoredText_HalfSlice(slice) == SubSeq(slice, 1, Len(slice) \div 2)

(* what is stored for a served group: the refined decompiler expands the   *)
(* slice (line 498), the fixed one stores the slice itself (line 466)      *)
StoredText(slice) ==
  IF variant = "refined" THEN patternexpand(slice) ELSE slice

(* mutation: a failed group ends the inner loop, as a break would *)
AfterEntry_BreakOnFailure(e, ok) ==
  IF ok THEN e + 1 ELSE Len(domains[zone_idx]) + 1

(* the inner loop goes on with the next entry, whatever the outcome *)
AfterEntry(e, ok) == e + 1

(* mutation: the characters gathered for a failed group are thrown away *)
AfterShortfall_Discarded(text) == <<>>

(* the else branch of lines 504-507 does not assign leftover *)
AfterShortfall(text) == text

(* mutation: the flag is assigned the outcome of the last group *)
ZoneSuccess_LastGroup(flag, ok) == ok

(* zone_success starts True in each zone and a failed group sets it False *)
ZoneSuccess(flag, ok) == flag /\ ok

InitDD ==
  /\ variant \in Variants
  /\ domains_lzp \in SampleData
  /\ mask_lzp_decoded \in SampleMasks
  /\ domains \in Schedules
  /\ schedule = domains
  /\ stats = [NewStats EXCEPT !.total_zones = Len(domains)]
  /\ ddpc = "start"
  /\ zone_idx = 0
  /\ entry_idx = 0
  /\ zone_success = TRUE
  /\ visited = <<>>
  /\ calls = <<>>
  /\ remaining_data = <<>>
  /\ remaining_mask = <<>>
  /\ leftover = <<>>
  /\ request_size = 0
  /\ limits = <<>>
  /\ nCalls = 0
  /\ FreshDecoderIdle
  /\ twin = NewTwin(<<>>, <<>>)
  /\ NoCodecCall
  /\ NoApp

(* mutation: only the compressed data is tested, not the mask *)
StreamsIncomplete_DataOnly(data, mask) == data = <<>>

(* not self.domains_lzp or not self.mask_lzp_decoded *)
StreamsIncomplete(data, mask) == data = <<>> \/ mask = <<>>

(* lines 443-453: the guard on empty streams, then the working copies *)
DD_Start ==
  /\ ddpc = "start"
  /\ IF StreamsIncomplete(domains_lzp, mask_lzp_decoded)
       THEN /\ ddpc' = "False"
            /\ UNCHANGED <<remaining_data, remaining_mask, leftover, zone_idx>>
       ELSE /\ ddpc' = "zones"
            /\ remaining_data' = domains_lzp
            /\ remaining_mask' = mask_lzp_decoded
            /\ leftover' = <<>>
            /\ zone_idx' = 1
  /\ UNCHANGED <<variant, domains_lzp, mask_lzp_decoded, nCalls, frameVars,
                 reqVars, twinVars, codecVars, guiVars, domains, schedule, entry_idx,
                 zone_success, stats, visited, calls>>

(* lines 456-461: the outer loop enters a zone *)
DD_Zone ==
  /\ ddpc = "zones"
  /\ zone_idx <= Len(domains)
  /\ zone_success' = TRUE
  /\ entry_idx' = 1
  /\ ddpc' = "entries"
  /\ UNCHANGED <<callerVars, frameVars, reqVars, twinVars, codecVars, guiVars,
                 domains, schedule,
                 zone_idx, stats, visited, calls>>

(* lines 461-507: the body of the inner loop for one entry.  unlzp handles *)
(* its own exceptions and the slices cannot raise, so the except branch of *)
(* lines 484-488 is never taken.                                           *)
DD_Entry ==
  /\ ddpc = "entries"
  /\ entry_idx <= Len(domains[zone_idx])
  /\ LET count == domains[zone_idx][entry_idx].value
     IN IF ~IsPositiveInt(count)
          THEN /\ visited' = Append(visited,
                               [zone |-> zone_idx, entry |-> entry_idx,
                                outcome |-> "skipped", slice |-> <<>>])
               /\ entry_idx' = AfterEntry(entry_idx, TRUE)
               /\ UNCHANGED <<remaining_data, remaining_mask, leftover, nCalls,
                              table, hash_val, reqVars, domains, zone_success,
                              stats, calls>>
          ELSE
            LET required_chars == count.val
                call == Len(leftover) < required_chars
                request == RequestSize(required_chars)
            IN
            \E f \in {IF call
                        THEN Unlzp(table, hash_val, remaining_data,
                                   remaining_mask, request)
                        ELSE IdleFrame(table, hash_val)} :
            \E grown \in {IF call THEN Extend(leftover, f.output)
                               ELSE leftover} :
            LET ok == Len(grown) >= required_chars
                compressed_data == TakePrefix(grown, required_chars)
            IN
            \E stored \in {IF ok THEN StoredText(compressed_data)
                                 ELSE ErrorText(required_chars, Len(grown))} :
               /\ table' = IF call THEN f.table ELSE table
               /\ hash_val' = IF call THEN f.hash_val ELSE hash_val
               /\ remaining_data' =
                    IF call THEN DropPrefix(remaining_data, f.data_pos)
                    ELSE remaining_data
               /\ remaining_mask' =
                    IF call THEN DropPrefix(remaining_mask, f.mask_pos)
                    ELSE remaining_mask
               /\ request_size' = IF call THEN request ELSE request_size
               /\ limits' = IF call THEN Append(limits, request) ELSE limits
               /\ nCalls' = IF call THEN nCalls + 1 ELSE nCalls
               /\ calls' =
                    IF call
                      THEN Append(calls,
                             [zone |-> zone_idx, entry |-> entry_idx,
                              limit |-> request, held |-> Len(leftover),
                              decompressed |-> f.output,
                              data_used |-> f.data_pos,
                              mask_used |-> f.mask_pos])
                      ELSE calls
               /\ leftover' = IF ok THEN DropPrefix(grown, required_chars)
                              ELSE AfterShortfall(grown)
               /\ domains' = [domains EXCEPT
                                ![zone_idx][entry_idx].value = StrValue(stored)]
               /\ stats' =
                    IF ok
                      THEN [stats EXCEPT
                              !.total_domains_decompressed = @ + Len(stored)]
                      ELSE [stats EXCEPT !.decompression_errors = @ + 1]
               /\ zone_success' = ZoneSuccess(zone_success, ok)
               /\ visited' = Append(visited,
                               [zone |-> zone_idx, entry |-> entry_idx,
                                outcome |-> IF ok THEN "served"
                                            ELSE "shortfall",
                                slice |-> IF ok THEN compressed_data
                                          ELSE <<>>])
               /\ entry_idx' = AfterEntry(entry_idx, ok)
  /\ UNCHANGED <<variant, domains_lzp, mask_lzp_decoded, localVars,
                 twinVars, codecVars, guiVars,
                 schedule, ddpc, zone_idx>>

(* lines 509-512: the end of a zone *)
DD_ZoneEnd ==
  /\ ddpc = "entries"
  /\ entry_idx > Len(domains[zone_idx])
  /\ stats' = IF zone_success
                THEN [stats EXCEPT !.successful_zones = @ + 1]
                ELSE stats
  /\ zone_idx' = zone_idx + 1
  /\ ddpc' = "zones"
  /\ UNCHANGED <<callerVars, frameVars, reqVars, twinVars, codecVars, guiVars,
                 domains, schedule,
                 entry_idx, zone_success, visited, calls>>

(* line 521: every zone was traversed, return True *)
DD_Return ==
  /\ ddpc = "zones"
  /\ zone_idx > Len(domains)
  /\ ddpc' = "True"
  /\ UNCHANGED <<callerVars, frameVars, reqVars, twinVars, codecVars, guiVars,
                 domains, schedule,
                 zone_idx, entry_idx, zone_success, stats, visited, calls>>

NextDD ==
  \/ DD_Start
  \/ DD_Zone
  \/ DD_Entry
  \/ DD_ZoneEnd
  \/ DD_Return

SpecDD == InitDD /\ [][NextDD]_vars

(* ------------- one decoder of each class on the same streams ----------- *)
(* The first decoder is an LZPDecompressor, the second (twin) is a         *)
(* FixedLZPDecompressor; both start fresh and each call of the second      *)
(* gets the limit of the first one's call of the same rank.                *)
PairData == {<<>>, <<65>>, <<0, 65, 66>>,
             <<33, 65, 115, 86, 33, 66, 109, 73>>}
(* 0: eight literals; 248: three literals, five predictions; 7: three      *)
(* predictions, five literals; 255: eight predictions                      *)
PairMasks == {<<>>, <<0>>, <<248>>, <<255>>, <<248, 7>>, <<0, 255>>,
              <<255, 248>>}
(* multiples of 8 and limits that are not *)
PairLimits == {8, 16, 3, 9}

InitPair ==
  /\ variant = "refined"
  /\ domains_lzp \in PairData
  /\ mask_lzp_decoded \in PairMasks
  /\ remaining_data = domains_lzp
  /\ remaining_mask = mask_lzp_decoded
  /\ leftover = <<>>
  /\ request_size = 0
  /\ limits = <<>>
  /\ nCalls = 0
  /\ FreshDecoderIdle
  /\ twin = NewTwin(domains_lzp, mask_lzp_decoded)
  /\ NoCodecCall
  /\ NoDecompressDomains
  /\ NoApp

(* the caller of the FixedLZPDecompressor makes its next call *)
FixedDecoderCall ==
  /\ twin.nCalls < Len(limits)
  /\ \E f \in {FixedLZPDecompressor_unlzp(twin.table, twin.hash_val,
                                           twin.remaining_data,
                                           twin.remaining_mask,
                                           limits[twin.nCalls + 1])} :
       twin' = [table |-> f.table,
                hash_val |-> f.hash_val,
                remaining_data |-> DropPrefix(twin.remaining_data, f.data_pos),
                remaining_mask |-> DropPrefix(twin.remaining_mask, f.mask_pos),
                leftover |-> twin.leftover \o f.output,
                nCalls |-> twin.nCalls + 1]
  /\ UNCHANGED <<callerVars, frameVars, reqVars, ddVars, codecVars, guiVars>>

NextPair ==
  \/ \E limit \in PairLimits : FirstDecoderCall(limit)
  \/ FixedDecoderCall

SpecPair == InitPair /\ [][NextPair]_vars

(* ------------------- calls that run to their return -------------------- *)
(* Either a caller of unlzp on the sample streams, taken step by step, or  *)
(* a decompress_domains call.  A call that has started keeps executing:    *)
(* the interpreter takes the next step of the running loop.  This is weak  *)
(* fairness on the step of the unlzp call in progress and on each step of  *)
(* decompress_domains; whether a caller makes a further unlzp call, or     *)
(* takes the returned tuple, is left open.                                 *)
InitLive == InitTwin \/ InitDD

(* the step of the unlzp call in progress, whichever statement it is at:   *)
(* the step RefinedWhile, RefinedFor, FixedWhile, FixedFor or FixedJoin    *)
(* takes                                                                   *)
RunStep ==
  /\ pc \in {"while", "for", "join"}
  /\ \E f \in {IF variant = "refined"
                  THEN R_step(Frame, remaining_data, remaining_mask,
                              request_size)
                  ELSE F_step(Frame, remaining_data, remaining_mask,
                              request_size)} : SetFrame(f)
  /\ UNCHANGED <<callerVars, reqVars, twinVars, codecVars, guiVars, ddVars>>

(* the inner loop of decompress_domains moves on to its next entry, which  *)
(* is what every DD_Entry step does                                        *)
NextEntry ==
  /\ ddpc = "entries"
  /\ entry_idx <= Len(domains[zone_idx])
  /\ entry_idx' = entry_idx + 1

NextLive ==
  \/ ddpc = "none" /\ \E limit \in Limits : CallUnlzp(limit)
  \/ RefinedWhile
  \/ RefinedFor
  \/ FixedWhile
  \/ FixedFor
  \/ FixedJoin
  \/ UpdateStreams
  \/ NextDD

SpecLive ==
  /\ InitLive
  /\ [][NextLive]_vars
  /\ WF_vars(RunStep)
  /\ WF_vars(DD_Start)
  /\ WF_vars(DD_Zone)
  /\ WF_entry_idx(NextEntry)
  /\ WF_vars(DD_ZoneEnd)
  /\ WF_vars(DD_Return)

(* ------------------------ the tunnel GUI: SSHTunnelApp ------------------ *)
(* Tk runs the handlers one at a time on the main thread; a handler is     *)
(* split where a thread can run between two of its statements.  The tray   *)
(* threads and the tunnel thread run beside it.  A pystray icon's run()    *)
(* returns once stop() has been called on that icon, and join(timeout=2.0) *)
(* returns when the thread has ended or when the two seconds have passed.  *)
(* After cleanup_and_quit the main loop is over and the daemon threads are *)
(* gone.  One tunnel thread exists at a time.                              *)
MaxHides == 2
MaxStarts == 2

(* __init__, line 45 *)
max_reconnect_attempts == 5

(* the fields __init__ sets (lines 36-46); an icon or thread is named by   *)
(* the order of its creation, 0 stands for None                            *)
NewApp ==
  [tray_icon |-> 0, tray_running |-> FALSE, tray_thread |-> 0,
   ssh_process |-> "none", is_running |-> FALSE, auto_reconnect |-> TRUE,
   reconnect_attempts |-> 0]

(* handler: where the main thread is inside a handler; returned: the       *)
(* handler that returned last; icons: each pystray.Icon created; tray:     *)
(* each tray thread, with the icon whose run() it is in; tunnel: where the *)
(* tunnel thread is; runs: the tunnel runs the current loop has started;   *)
(* lost: the ssh process of the last run ended by itself                   *)
NewProcs ==
  [handler |-> "idle", returned |-> "none", icons |-> <<>>, tray |-> <<>>,
   tunnel |-> "none", runs |-> 0, starts |-> 0, lost |-> FALSE,
   reported |-> FALSE, quit |-> FALSE]

InitGui ==
  /\ app = NewApp
  /\ procs = NewProcs
  /\ variant = "refined"
  /\ domains_lzp = <<>>
  /\ mask_lzp_decoded = <<>>
  /\ remaining_data = <<>>
  /\ remaining_mask = <<>>
  /\ leftover = <<>>
  /\ request_size = 0
  /\ limits = <<>>
  /\ nCalls = 0
  /\ FreshDecoderIdle
  /\ twin = NewTwin(<<>>, <<>>)
  /\ NoCodecCall
  /\ NoDecompressDomains

pacVars == <<callerVars, frameVars, reqVars, twinVars, ddVars, codecVars>>

(* icon.stop() on the icon named by i; nothing happens for None *)
Stopped(icons, i) ==
  [k \in 1..Len(icons) |-> IF k = i THEN "stopped" ELSE icons[k]]

(* self.tray_thread and self.tray_thread.is_alive() *)
TrayThreadAlive ==
  app.tray_thread # 0 /\ procs.tray[app.tray_thread].pc # "done"

(* a handler can be dispatched *)
HandlerIdle == procs.handler = "idle" /\ ~procs.quit

(* hide_to_tray, lines 621-630 with create_new_tray_icon (637-685): when   *)
(* an icon exists and tray_running is set the handler is done; otherwise   *)
(* the old icon is stopped and a new one made                              *)
HideToTray_Create ==
  /\ HandlerIdle
  /\ IF app.tray_icon # 0 /\ app.tray_running
       THEN /\ procs' = [procs EXCEPT !.returned = "hide_to_tray"]
            /\ app' = app
       ELSE /\ Len(procs.icons) < MaxHides
            /\ procs' = [procs EXCEPT
                           !.icons = Append(Stopped(@, app.tray_icon),
                                            "created"),
                           !.handler = "hide_set",
                           !.returned = "none"]
            /\ app' = [app EXCEPT !.tray_icon = Len(procs.icons) + 1]
  /\ UNCHANGED pacVars

(* hide_to_tray, line 633: self.tray_running = True *)
HideToTray_Set ==
  /\ procs.handler = "hide_set"
  /\ app' = [app EXCEPT !.tray_running = TRUE]
  /\ procs' = [procs EXCEPT !.handler = "hide_start"]
  /\ UNCHANGED pacVars

(* hide_to_tray, lines 634-635: the thread is made and started, and the    *)
(* handler returns                                                         *)
HideToTray_Start ==
  /\ procs.handler = "hide_start"
  /\ app' = [app EXCEPT !.tray_thread = Len(procs.tray) + 1]
  /\ procs' = [procs EXCEPT
                 !.tray = Append(@, [pc |-> "start", icon |-> 0]),
                 !.handler = "idle",
                 !.returned = "hide_to_tray"]
  /\ UNCHANGED pacVars

(* show_from_tray, lines 703-713: the flag is cleared, the icon stopped,   *)
(* and the thread joined if it is alive                                    *)
ShowFromTray_Stop ==
  /\ HandlerIdle
  /\ app' = [app EXCEPT !.tray_running = FALSE]
  /\ procs' = [procs EXCEPT
                 !.icons = Stopped(@, app.tray_icon),
                 !.handler = IF TrayThreadAlive THEN "show_join" ELSE "idle",
                 !.returned = IF TrayThreadAlive THEN "none"
                              ELSE "show_from_tray"]
  /\ UNCHANGED pacVars

(* show_from_tray, lines 715-727: join(timeout=2.0) is back, the window is *)
(* shown, the handler returns                                              *)
ShowFromTray_Joined ==
  /\ procs.handler = "show_join"
  /\ procs' = [procs EXCEPT !.handler = "idle", !.returned = "show_from_tray"]
  /\ UNCHANGED <<app, pacVars>>

(* stop_tunnel, lines 1436-1447, on the fields a: with a process and       *)
(* is_running the flag is cleared and the process terminated               *)
stop_tunnel(a) ==
  IF a.ssh_process # "none" /\ a.is_running
    THEN [a EXCEPT !.is_running = FALSE, !.ssh_process = "exited"]
    ELSE a

(* cleanup_and_quit, lines 1466-1480 *)
CleanupAndQuit_Stop ==
  /\ HandlerIdle
  /\ LET joins == app.tray_running /\ TrayThreadAlive
     IN /\ app' = [stop_tunnel(app) EXCEPT !.tray_running = FALSE]
        /\ procs' = [procs EXCEPT
                       !.icons = IF app.tray_running
                                   THEN Stopped(@, app.tray_icon) ELSE @,
                       !.handler = IF joins THEN "quit_join" ELSE "idle",
                       !.returned = IF joins THEN "none"
                                    ELSE "cleanup_and_quit",
                       !.quit = ~joins]
  /\ UNCHANGED pacVars

(* cleanup_and_quit, lines 1482-1487: the join is back, root.quit() *)
CleanupAndQuit_Joined ==
  /\ procs.handler = "quit_join"
  /\ procs' = [procs EXCEPT !.handler = "idle",
                            !.returned = "cleanup_and_quit",
                            !.quit = TRUE]
  /\ UNCHANGED <<app, pacVars>>

(* _run_tray_loop, line 691: the thread enters self.tray_icon.run(), on    *)
(* the icon the field names at that moment                                 *)
TrayLoop_Run(k) ==
  /\ ~procs.quit
  /\ procs.tray[k].pc = "start"
  /\ procs' = [procs EXCEPT !.tray[k] =
       [pc |-> IF procs.icons[app.tray_icon] = "stopped"
                 THEN "run_stopped" ELSE "run",
        icon |-> app.tray_icon]]
  /\ UNCHANGED <<app, pacVars>>

(* run() on an icon that was stopped before: pystray may return at once or *)
(* keep the thread in its loop; this is the return                         *)
TrayLoop_StoppedBefore(k) ==
  /\ ~procs.quit
  /\ procs.tray[k].pc = "run_stopped"
  /\ procs' = [procs EXCEPT !.tray[k].pc = "finally"]
  /\ UNCHANGED <<app, pacVars>>

(* run() returns: stop() was called on the icon while it ran *)
TrayLoop_Stopped(k) ==
  /\ ~procs.quit
  /\ procs.tray[k].pc = "run"
  /\ procs.icons[procs.tray[k].icon] = "stopped"
  /\ procs' = [procs EXCEPT !.tray[k].pc = "finally"]
  /\ UNCHANGED <<app, pacVars>>

(* _run_tray_loop, lines 694-696: finally: self.tray_running = False *)
TrayLoop_Finally(k) ==
  /\ ~procs.quit
  /\ procs.tray[k].pc = "finally"
  /\ app' = [app EXCEPT !.tray_running = FALSE]
  /\ procs' = [procs EXCEPT !.tray[k].pc = "done"]
  /\ UNCHANGED pacVars

(* start_tunnel, lines 1258-1283, with host and user name filled in *)
StartTunnel ==
  /\ HandlerIdle
  /\ ~app.is_running
  /\ procs.tunnel \in {"none", "done"}
  /\ procs.starts < MaxStarts
  /\ app' = [app EXCEPT !.reconnect_attempts = 0]
  /\ procs' = [procs EXCEPT !.tunnel = "while", !.runs = 0, !.lost = FALSE,
                            !.reported = FALSE, !.starts = @ + 1,
                            !.returned = "start_tunnel"]
  /\ UNCHANGED pacVars

(* the Stop button: stop_tunnel when there is something to stop *)
StopTunnel ==
  /\ HandlerIdle
  /\ app.ssh_process # "none" /\ app.is_running
  /\ app' = stop_tunnel(app)
  /\ procs' = [procs EXCEPT !.returned = "stop_tunnel"]
  /\ UNCHANGED pacVars

(* toggle_auto_reconnect, lines 991-996: the checkbox was switched *)
ToggleAutoReconnect ==
  /\ HandlerIdle
  /\ app' = [app EXCEPT !.auto_reconnect = ~@]
  /\ procs' = [procs EXCEPT !.returned = "toggle_auto_reconnect"]
  /\ UNCHANGED pacVars

(* the ssh process ends by itself: the connection is lost *)
ConnectionLost ==
  /\ ~procs.quit
  /\ app.ssh_process = "alive"
  /\ app' = [app EXCEPT !.ssh_process = "exited"]
  /\ procs' = [procs EXCEPT !.lost = TRUE]
  /\ UNCHANGED pacVars

(* run_tunnel_loop, lines 1287-1295: the while test; when it passes, the   *)
(* sleep of reconnect_delay seconds before a reconnection, then the run    *)
TunnelLoop_While ==
  /\ ~procs.quit
  /\ procs.tunnel = "while"
  /\ procs' = [procs EXCEPT !.tunnel =
       IF ~app.is_running
          /\ app.reconnect_attempts < max_reconnect_attempts
         THEN "single" ELSE "after"]
  /\ UNCHANGED <<app, pacVars>>

(* run_single_tunnel, lines 1314-1410: is_running is set and the ssh       *)
(* process started                                                         *)
RunSingleTunnel_Start ==
  /\ ~procs.quit
  /\ procs.tunnel = "single"
  /\ app' = [app EXCEPT !.is_running = TRUE, !.ssh_process = "alive"]
  /\ procs' = [procs EXCEPT !.tunnel = "reading", !.runs = @ + 1,
                            !.lost = FALSE]
  /\ UNCHANGED pacVars

(* lines 1413-1424: the read loop ends and wait() returns once the process *)
(* has ended                                                               *)
RunSingleTunnel_Exited ==
  /\ ~procs.quit
  /\ procs.tunnel = "reading"
  /\ app.ssh_process = "exited"
  /\ procs' = [procs EXCEPT !.tunnel = "finally"]
  /\ UNCHANGED <<app, pacVars>>

(* lines 1432-1434: finally: self.is_running = False *)
RunSingleTunnel_Finally ==
  /\ ~procs.quit
  /\ procs.tunnel = "finally"
  /\ app' = [app EXCEPT !.is_running = FALSE]
  /\ procs' = [procs EXCEPT !.tunnel = "check"]
  /\ UNCHANGED pacVars

(* run_tunnel_loop, lines 1299-1303: count a reconnection and loop, or     *)
(* break                                                                   *)
TunnelLoop_Check ==
  /\ ~procs.quit
  /\ procs.tunnel = "check"
  /\ IF app.is_running /\ app.auto_reconnect
       THEN /\ app' = [app EXCEPT !.reconnect_attempts = @ + 1]
            /\ procs' = [procs EXCEPT !.tunnel = "while"]
       ELSE /\ app' = app
            /\ procs' = [procs EXCEPT !.tunnel = "after"]
  /\ UNCHANGED pacVars

(* lines 1305-1309: the report when the attempts are used up *)
TunnelLoop_After ==
  /\ ~procs.quit
  /\ procs.tunnel = "after"
  /\ procs' = [procs EXCEPT
                 !.tunnel = "done",
                 !.reported =
                   app.reconnect_attempts >= max_reconnect_attempts]
  /\ UNCHANGED <<app, pacVars>>

(* the handler in progress goes on *)
HandlerContinues ==
  \/ HideToTray_Set
  \/ HideToTray_Start
  \/ ShowFromTray_Joined
  \/ CleanupAndQuit_Joined

TrayThread == \E k \in 1..MaxHides :
  /\ k <= Len(procs.tray)
  /\ (TrayLoop_Run(k) \/ TrayLoop_Stopped(k) \/ TrayLoop_Finally(k))

(* not a step a thread is bound to take *)
TrayThreadMayReturn == \E k \in 1..MaxHides :
  /\ k <= Len(procs.tray)
  /\ TrayLoop_StoppedBefore(k)

TunnelThread ==
  \/ TunnelLoop_While
  \/ RunSingleTunnel_Start
  \/ RunSingleTunnel_Exited
  \/ RunSingleTunnel_Finally
  \/ TunnelLoop_Check
  \/ TunnelLoop_After

NextGui ==
  \/ HideToTray_Create
  \/ ShowFromTray_Stop
  \/ CleanupAndQuit_Stop
  \/ StartTunnel
  \/ StopTunnel
  \/ ToggleAutoReconnect
  \/ ConnectionLost
  \/ HandlerContinues
  \/ TrayThread
  \/ TrayThreadMayReturn
  \/ TunnelThread

(* Threads that can take a step do so, and a handler that has started runs *)
(* to its end; which handlers are dispatched, and whether the connection   *)
(* is lost, is left open.                                                  *)
SpecGui ==
  /\ InitGui
  /\ [][NextGui]_vars
  /\ WF_vars(HandlerContinues)
  /\ WF_vars(TrayThread)
  /\ WF_vars(TunnelThread)

(* ------------- the same streams under two orders of one zone ------------ *)
(* A second decompiler object with its own decoder gets the same streams   *)
(* and the zone of the first one with its entries in reverse order; its    *)
(* decompress_domains call is taken as one step.                           *)
OrderData == {<<65>>, <<33, 65, 115>>}
(* all literal; 3 literal and 5 predicted bits; all predicted *)
OrderMasks == {<<0>>, <<248>>, <<255>>}
OrderCounts == {4, 10}

(* mutation: leftover starts as the compressed stream *)
WorkingCopies_DataAsText(data, mask) ==
  [remaining_data |-> data, remaining_mask |-> mask, leftover |-> data]

(* lines 450-453: remaining_data, remaining_mask, leftover = '' *)
WorkingCopies(data, mask) ==
  [remaining_data |-> data, remaining_mask |-> mask, leftover |-> <<>>]

(* the second decompiler before its decompress_domains call; results and   *)
(* slices are kept per entry in the order of its own zone                  *)
NewSession ==
  [table |-> NewDecoder.table, hash_val |-> NewDecoder.hash_val,
   remaining_data |-> <<>>, remaining_mask |-> <<>>, leftover |-> <<>>,
   nCalls |-> 0, produced |-> <<>>, results |-> <<>>, slices |-> <<>>,
   returned |-> "none"]

(* lines 461-507 for the entry whose value is count, on the session s *)
SessionEntry(s, count) ==
  IF ~IsPositiveInt(count)
    THEN [s EXCEPT !.results = Append(@, count),
                   !.slices = Append(@, [served |-> FALSE, text |-> <<>>])]
    ELSE
      LET required_chars == count.val
          call == Len(s.leftover) < required_chars
      IN CHOOSE after \in
           {LET grown == IF call THEN Extend(s.leftover, f.output)
                         ELSE s.leftover
                ok == Len(grown) >= required_chars
                compressed_data == TakePrefix(grown, required_chars)
            IN [table |-> f.table,
                hash_val |-> f.hash_val,
                remaining_data |->
                  IF call THEN DropPrefix(s.remaining_data, f.data_pos)
                  ELSE s.remaining_data,
                remaining_mask |->
                  IF call THEN DropPrefix(s.remaining_mask, f.mask_pos)
                  ELSE s.remaining_mask,
                leftover |-> IF ok THEN DropPrefix(grown, required_chars)
                             ELSE grown,
                nCalls |-> IF call THEN s.nCalls + 1 ELSE s.nCalls,
                produced |-> IF call THEN s.produced \o f.output
                             ELSE s.produced,
                results |->
                  Append(s.results,
                         StrValue(IF ok THEN StoredText(compressed_data)
                                  ELSE ErrorText(required_chars, Len(grown)))),
                slices |->
                  Append(s.slices,
                         [served |-> ok,
                          text |-> IF ok THEN compressed_data ELSE <<>>]),
                returned |-> s.returned] :
              f \in {IF call
                       THEN Unlzp(s.table, s.hash_val, s.remaining_data,
                                  s.remaining_mask,
                                  RequestSize(required_chars))
                       ELSE IdleFrame(s.table, s.hash_val)}} : TRUE

(* the inner loop over the first k entries of a zone *)
RECURSIVE SessionEntries(_, _, _)
SessionEntries(s, zone, k) ==
  IF k = 0 THEN s
  ELSE CHOOSE after \in
         {SessionEntry(before, zone[k].value) :
            before \in {SessionEntries(s, zone, k - 1)}} : TRUE

(* lines 443-521 for a schedule of one zone *)
SessionRun(s, data, mask, zone) ==
  IF data = <<>> \/ mask = <<>> THEN [s EXCEPT !.returned = "False"]
  ELSE LET w == WorkingCopies(data, mask)
       IN [SessionEntries([s EXCEPT !.remaining_data = w.remaining_data,
                                    !.remaining_mask = w.remaining_mask,
                                    !.leftover = w.leftover],
                          zone, Len(zone))
             EXCEPT !.returned = "True"]

(* the entries of a zone in reverse order *)
Reversed(zone) == [k \in 1..Len(zone) |-> zone[Len(zone) + 1 - k]]

InitOrder ==
  /\ variant \in Variants
  /\ domains_lzp \in OrderData
  /\ mask_lzp_decoded \in OrderMasks
  /\ domains \in {<<ZoneOf(<<a, b>>)>> : a \in OrderCounts, b \in OrderCounts}
  /\ schedule = domains
  /\ stats = [NewStats EXCEPT !.total_zones = Len(domains)]
  /\ ddpc = "start"
  /\ zone_idx = 0
  /\ entry_idx = 0
  /\ zone_success = TRUE
  /\ visited = <<>>
  /\ calls = <<>>
  /\ remaining_data = <<>>
  /\ remaining_mask = <<>>
  /\ leftover = <<>>
  /\ request_size = 0
  /\ limits = <<>>
  /\ nCalls = 0
  /\ FreshDecoderIdle
  /\ twin = NewSession
  /\ NoCodecCall
  /\ NoApp

(* the second decompiler's decompress_domains call, entries reversed *)
SecondRun ==
  /\ twin.returned = "none"
  /\ twin' = SessionRun(twin, domains_lzp, mask_lzp_decoded,
                        Reversed(schedule[1]))
  /\ UNCHANGED <<callerVars, frameVars, reqVars, codecVars, guiVars, ddVars>>

NextOrder ==
  \/ DD_Start
  \/ DD_Zone
  \/ DD_Entry
  \/ DD_ZoneEnd
  \/ DD_Return
  \/ SecondRun

SpecOrder == InitOrder /\ [][NextOrder]_vars

(* ======================== properties of unlzp =========================== *)
(* bit number i of a byte, by division *)
BitNo(x, i) == (x \div (2 ^ i)) % 2

(* a step that processes one mask bit (emits one byte) *)
BitProcessed == pc = "for" /\ emitted' # emitted

(* C1: the bits of a mask byte are processed from bit 0 up to bit 7; a 1  *)
(* bit emits table[hash] (0 if the entry was never written); a 0 bit with *)
(* data remaining reads the next data byte, stores it at table[hash] (the *)
(* hash before its update) and emits it.                                  *)
C1_BitSemantics ==
  [][ /\ (pc = "while" /\ pc' = "for") => bit_index' = 0
      /\ BitProcessed =>
           LET c == emitted'[Len(emitted')]
           IN /\ bit_index \in 0..7
              /\ bit_index' = bit_index + 1
              /\ emitted' = Append(emitted, c)
              /\ variant = "refined" => output' = Append(output, c)
              /\ variant = "fixed" => outpos' = outpos + 1 /\ out'[outpos'] = c
              /\ BitNo(mask_byte, bit_index) = 1 =>
                   c = (IF hash_val \in DOMAIN table THEN table[hash_val] ELSE 0)
              /\ (BitNo(mask_byte, bit_index) = 0
                    /\ data_pos < Len(remaining_data)) =>
                   /\ c = remaining_data[data_pos + 1]
                   /\ data_pos' = data_pos + 1
                   /\ (IF hash_val \in DOMAIN table' THEN table'[hash_val] ELSE 0) = c
    ]_vars

(* a predicted bit that is not bit 0 has just emitted a non-zero table    *)
(* entry, after a literal was read in the same call                       *)
C1_Witness ==
  /\ pc = "for"
  /\ bit_index \in 2..7
  /\ BitNo(mask_byte, bit_index - 1) = 1
  /\ BitNo(mask_byte, 0) = 0
  /\ data_pos >= 1
  /\ emitted # <<>>
  /\ emitted[Len(emitted)] # 0

(* C2: the table and the hash persist across consecutive unlzp calls on  *)
(* one decoder: a call starts with the hash and the table the previous    *)
(* call left; only a fresh decoder starts from hash 0 and an empty table. *)
C2_StatePersists ==
  [][ (pc = "idle" /\ pc' = "while") =>
        /\ hash_val' = hash_val
        /\ table' = table
        /\ nCalls = 0 => (hash_val = 0 /\ table = EmptyTable)
    ]_vars

(* C3: unlzp(data, mask, N) never returns more than N decoded bytes. *)
C3_LimitRespected ==
  pc = "return" => Len(ReturnValue[1]) <= request_size

(* the result of decoding the whole streams in one call on a fresh        *)
(* decoder                                                                *)
OneCall(limit) ==
  IF variant = "refined"
    THEN R_result(LZPDecompressor_unlzp(EmptyTable, 0, domains_lzp,
                                        mask_lzp_decoded, limit))
    ELSE F_result(FixedLZPDecompressor_unlzp(EmptyTable, 0, domains_lzp,
                                             mask_lzp_decoded, limit))

(* C4: the consumed counts are sufficient to resume: with the caller      *)
(* dropping the consumed prefixes after each call, the concatenation of   *)
(* the outputs of consecutive calls equals the output of one call on the  *)
(* whole streams, and as much of either stream is consumed.  Stated for   *)
(* LZPDecompressor and for limits that are multiples of 8, so that no     *)
(* call stops inside a mask byte; the one call asks for the sum of the    *)
(* limits.                                                                *)
C4_ResumeEqualsOneCall ==
  (/\ pc = "idle"
   /\ nCalls >= 1
   /\ variant = "refined"
   /\ \A i \in 1..Len(limits) : limits[i] % 8 = 0) =>
     LET one == OneCall(SumSeq(limits))
     IN /\ leftover = one[1]
        /\ Len(domains_lzp) - Len(remaining_data) = one[2]
        /\ Len(mask_lzp_decoded) - Len(remaining_mask) = one[3]

(* C5: after every emitted byte c the hash becomes                        *)
(* ((hash << 7) XOR c) & 0x3FFFF; the hash always lies in 0 .. 2^18 - 1,  *)
(* as does every written table index; a fresh decoder has hash 0.         *)
C5_HashInBounds ==
  /\ [](/\ hash_val \in 0..(TableSize - 1)
        /\ DOMAIN table \subseteq 0..(TableSize - 1)
        /\ (nCalls = 0 /\ pc = "idle") => hash_val = 0)
  /\ [][ BitProcessed =>
           LET c == emitted'[Len(emitted')]
           IN \A k \in 0..17 :
                BitNo(hash_val', k) =
                  (((IF k >= 7 THEN BitNo(hash_val, k - 7) ELSE 0)
                     + BitNo(c, k)) % 2)
       ]_vars

(* the shift has pushed bits out of the 18-bit window and a byte with     *)
(* bit 7 set was folded in                                                *)
C5_Witness ==
  /\ Len(emitted) >= 3
  /\ emitted[1] # 0
  /\ \E k \in 1..Len(emitted) : emitted[k] >= 128
  /\ hash_val >= 2 ^ 17

(* a 0 bit is being processed while the data stream is exhausted *)
ExhaustedLiteral ==
  /\ pc = "for"
  /\ variant = "refined" => Len(output) < request_size
  /\ BitNo(mask_byte, bit_index) = 0
  /\ data_pos >= Len(remaining_data)

(* C6: a 0 bit met when the data stream is exhausted emits a 0 byte,      *)
(* leaves the data cursor in place and the call goes on with the          *)
(* remaining bits of the mask byte.                                       *)
C6_ExhaustedEmitsZero ==
  [][ ExhaustedLiteral =>
        /\ emitted' = Append(emitted, 0)
        /\ data_pos' = data_pos
        /\ bit_index' = bit_index + 1
        /\ bit_index < 7 => pc' = "for"
    ]_vars

(* C7: the table is written only when a literal is actually taken from    *)
(* the data stream, and then only at the current hash.                    *)
C7_TableWrittenOnlyByLiteral ==
  [][ table' # table =>
        /\ pc = "for"
        /\ BitNo(mask_byte, bit_index) = 0
        /\ data_pos < Len(remaining_data)
        /\ table' = TableSet(table, hash_val, remaining_data[data_pos + 1])
    ]_vars

(* C8: the returned output holds every byte emitted during the call, in   *)
(* encounter order, exactly once.                                         *)
C8_OutputIsEmitted ==
  pc = "return" => ReturnValue[1] = emitted

(* C9: mask_used equals the number of mask bytes read, also when the      *)
(* limit stops the call inside a mask byte; the bytes read are            *)
(* consecutive and the next call resumes after them.                      *)
C9_MaskUsedCountsReads ==
  [][ /\ (pc = "while" /\ pc' = "for") =>
           /\ nread' = nread + 1
           /\ mask_byte' = remaining_mask[nread']
      /\ pc = "return" =>
           /\ ReturnValue[3] = nread
           /\ remaining_mask' = SubSeq(remaining_mask, nread + 1,
                                       Len(remaining_mask))
    ]_vars

(* a call returns after the limit stopped it inside a mask byte, with     *)
(* another mask byte still to come                                        *)
C9_Witness ==
  /\ pc = "return"
  /\ nread >= 1
  /\ bit_index \in 1..7
  /\ Len(output) = request_size
  /\ Len(remaining_mask) > nread

(* the scenario's inputs, at the return of the first call *)
ScenarioReturn(mask) ==
  /\ pc = "return"
  /\ nCalls = 0
  /\ remaining_data = <<65, 66>>
  /\ remaining_mask = mask
  /\ request_size = 2

RECURSIVE PositionsFrom(_, _, _)
PositionsFrom(sch, z, e) ==
  IF z > Len(sch) THEN <<>>
  ELSE IF e > Len(sch[z]) THEN PositionsFrom(sch, z + 1, 1)
  ELSE <<(<<z, e>>)>> \o PositionsFrom(sch, z, e + 1)

AllEntries == PositionsFrom(schedule, 1, 1)

RECURSIVE Concat(_)
Concat(ss) == IF ss = <<>> THEN <<>> ELSE Head(ss) \o Concat(Tail(ss))

(* everything unlzp has returned to decompress_domains so far *)
Produced == Concat([i \in 1..Len(calls) |-> calls[i].decompressed])

(* the slices handed to the first k visited entries, concatenated *)
HandedUpTo(k) == Concat([i \in 1..k |-> visited[i].slice])

(* C12: decompress_domains runs its loop body for the (zone, length)       *)
(* entries in exactly schedule order, each once, and the k-th entry gets   *)
(* the decoded characters that immediately follow those handed to the      *)
(* entries before it.                                                      *)
C12_ScheduleOrder ==
  /\ Len(visited) <= Len(AllEntries)
  /\ \A k \in 1..Len(visited) :
        /\ <<visited[k].zone, visited[k].entry>> = AllEntries[k]
        /\ visited[k].outcome = "served" =>
             LET before == Len(HandedUpTo(k - 1))
             IN visited[k].slice =
                  SubSeq(Produced, before + 1, before + Len(visited[k].slice))
  /\ ddpc = "True" => Len(visited) = Len(AllEntries)

(* the traversal is over and two entries of different zones were served   *)
(* with different text                                                     *)
C12_Witness ==
  /\ ddpc = "True"
  /\ Len(visited) = 2
  /\ visited[1].zone # visited[2].zone
  /\ visited[1].outcome = "served"
  /\ visited[2].outcome = "served"
  /\ visited[1].slice # visited[2].slice

(* the loop body of decompress_domains runs for one entry *)
EntryStep == ddpc = "entries" /\ visited' # visited

(* C13: for an entry with a positive count decompress_domains calls unlzp  *)
(* if and only if leftover holds fewer than requiredCount characters, at   *)
(* most once for that entry, with limit max(8192, requiredCount), which is *)
(* never smaller than requiredCount; no other step calls unlzp.            *)
C13_RequestWhenShort ==
  [][ /\ calls' # calls => EntryStep
      /\ EntryStep =>
           LET count == domains[zone_idx][entry_idx].value
               called == Len(calls') = Len(calls) + 1
               last == calls'[Len(calls')]
           IN /\ calls' = calls \/ (called /\ SubSeq(calls', 1, Len(calls)) = calls)
              /\ called <=> (/\ count.kind = "int"
                             /\ count.val > 0
                             /\ Len(leftover) < count.val)
              /\ called =>
                   /\ last.zone = zone_idx
                   /\ last.entry = entry_idx
                   /\ last.limit >= count.val
                   /\ last.limit >= MinRequest
                   /\ last.limit \in {count.val, MinRequest}
    ]_vars

(* two calls were made, the first with the floor of 8192 and the second    *)
(* with a required count above it                                          *)
C13_Witness ==
  /\ Len(calls) = 2
  /\ calls[1].limit = MinRequest
  /\ calls[2].limit > MinRequest
  /\ calls[1].decompressed # <<>>

(* C14: a served entry takes exactly requiredCount characters off the      *)
(* front of leftover and the rest stays in leftover in order; at every     *)
(* point the slices handed out so far followed by leftover are the unlzp   *)
(* outputs so far, so that no decoded character is lost, duplicated or     *)
(* reordered.                                                              *)
C14_SlicesPartitionOutput ==
  /\ [](HandedUpTo(Len(visited)) \o leftover = Produced)
  /\ [][ (EntryStep /\ visited'[Len(visited')].outcome = "served") =>
           LET n == domains[zone_idx][entry_idx].value.val
               held == IF calls' = calls THEN leftover
                       ELSE leftover \o calls'[Len(calls')].decompressed
               slice == visited'[Len(visited')].slice
           IN /\ Len(slice) = n
              /\ slice = SubSeq(held, 1, n)
              /\ leftover' = SubSeq(held, n + 1, Len(held))
       ]_vars

(* two entries were served, the second from what the first had left, and   *)
(* characters are still left over                                          *)
C14_Witness ==
  /\ Len(visited) = 2
  /\ visited[1].outcome = "served"
  /\ visited[2].outcome = "served"
  /\ Len(calls) = 1
  /\ leftover # <<>>

(* the part of s that starts after its first n elements *)
Suffix(s, n) == SubSeq(s, n + 1, Len(s))

(* C15: after each unlzp call decompress_domains drops exactly data_used   *)
(* characters from the front of the remaining data and mask_used from the  *)
(* front of the remaining mask and appends the decoded text to the end of  *)
(* leftover; the stream cursors only move forward, never pass the end of   *)
(* their stream, and move only when unlzp is called.                       *)
C15_StreamsAdvance ==
  /\ [](ddpc \in {"zones", "entries", "True"} =>
          LET data_done == SumSeq([i \in 1..Len(calls) |-> calls[i].data_used])
              mask_done == SumSeq([i \in 1..Len(calls) |-> calls[i].mask_used])
          IN /\ data_done <= Len(domains_lzp)
             /\ mask_done <= Len(mask_lzp_decoded)
             /\ remaining_data = Suffix(domains_lzp, data_done)
             /\ remaining_mask = Suffix(mask_lzp_decoded, mask_done))
  /\ [][ IF calls' # calls
           THEN LET last == calls'[Len(calls')]
                IN /\ last.data_used \in 0..Len(remaining_data)
                   /\ last.mask_used \in 0..Len(remaining_mask)
                   /\ remaining_data' = Suffix(remaining_data, last.data_used)
                   /\ remaining_mask' = Suffix(remaining_mask, last.mask_used)
                   /\ visited'[Len(visited')].slice \o leftover'
                        = leftover \o last.decompressed
           ELSE ddpc # "start" =>
                  /\ remaining_data' = remaining_data
                  /\ remaining_mask' = remaining_mask
       ]_vars

(* a first call consumed part of the data and the whole mask; a second     *)
(* call found data but no mask and consumed nothing                        *)
C15_Witness ==
  /\ Len(calls) = 2
  /\ calls[1].data_used \in 1..(Len(domains_lzp) - 1)
  /\ calls[1].mask_used = Len(mask_lzp_decoded)
  /\ calls[2].data_used = 0
  /\ calls[2].mask_used = 0
  /\ remaining_data # <<>>

(* the loop body runs for an entry with a positive count *)
GroupStep ==
  /\ EntryStep
  /\ domains[zone_idx][entry_idx].value.kind = "int"
  /\ domains[zone_idx][entry_idx].value.val > 0

(* what leftover holds once the unlzp call of this step, if any, is back *)
HeldAfterCall ==
  IF calls' = calls THEN leftover
  ELSE leftover \o calls'[Len(calls')].decompressed

(* "<LZP_ERROR: need 10, got 4>" *)
Need10Got4 ==
  <<60, 76, 90, 80, 95, 69, 82, 82, 79, 82, 58, 32, 110, 101, 101, 100, 32,
    49, 48, 44, 32, 103, 111, 116, 32, 52, 62>>

(* C16: if leftover still holds fewer than requiredCount characters after  *)
(* the decode request, the group is recorded as failed with the required   *)
(* and the available amount (required 10 with 4 available: need 10, got 4, *)
(* a shortfall of 6), the error counter is incremented, no text is stored  *)
(* or counted for the group, nothing is taken from leftover, and the loop  *)
(* goes on with the next entry.                                            *)
C16_ShortfallRecorded ==
  [][ (GroupStep /\ Len(HeldAfterCall) < domains[zone_idx][entry_idx].value.val)
        =>
        LET need == domains[zone_idx][entry_idx].value.val
            got == Len(HeldAfterCall)
            record == domains'[zone_idx][entry_idx].value
        IN /\ record = StrValue(ErrorText(need, got))
           /\ (need = 10 /\ got = 4) =>
                (record.val = Need10Got4 /\ need - got = 6)
           /\ record.val # SubSeq(HeldAfterCall, 1, got)
           /\ visited'[Len(visited')].outcome = "shortfall"
           /\ visited'[Len(visited')].slice = <<>>
           /\ stats'.decompression_errors = stats.decompression_errors + 1
           /\ stats'.total_domains_decompressed
                = stats.total_domains_decompressed
           /\ leftover' = HeldAfterCall
           /\ ddpc' = "entries"
           /\ entry_idx' = entry_idx + 1
    ]_vars

(* a group that needed 10 characters when 4 were available was recorded *)
C16_Witness ==
  /\ \E z \in 1..Len(domains) : \E e \in 1..Len(domains[z]) :
        /\ schedule[z][e].value = IntValue(10)
        /\ domains[z][e].value = StrValue(Need10Got4)
  /\ Len(leftover) = 4
  /\ stats.decompression_errors = 1

(* the position (z, e) has had its loop body run *)
WasVisited(z, e) ==
  \E k \in 1..Len(visited) : visited[k].zone = z /\ visited[k].entry = e

C18_StoredIsExpansion ==
  \A k \in 1..Len(visited) :
    visited[k].outcome = "served" =>
      domains[visited[k].zone][visited[k].entry].value
        = StrValue(patternexpand(visited[k].slice))

(* the entry of self.domains the k-th run of the loop body was for *)
ResultOf(k) == domains[visited[k].zone][visited[k].entry]

(* C19 as stated: for each (zone, length) pair the result is either a      *)
(* successfully expanded text whose length is an exact multiple of length, *)
(* or an explicit shortfall failure carrying the required and the          *)
(* available amounts.                                                      *)
C19_LengthIsMultiple ==
  \A k \in 1..Len(visited) :
    LET count == schedule[visited[k].zone][visited[k].entry].value.val
        result == ResultOf(k)
    IN /\ visited[k].outcome = "served" =>
            Len(result.value.val) % result.length_key = 0
       /\ visited[k].outcome = "shortfall" =>
            \E got \in 0..(count - 1) :
              result.value = StrValue(ErrorText(count, got))

(* C19 amended: for each (zone, length) pair with a positive count the     *)
(* result is either a text of at least requiredCount characters, which in  *)
(* RefinedPACDecompiler is the expansion of exactly requiredCount decoded  *)
(* characters (its length need not be a multiple of length), or an         *)
(* explicit shortfall failure carrying the required and the available      *)
(* amounts, the latter smaller than the former.                            *)
C19_TextOrShortfall ==
  \A k \in 1..Len(visited) :
    LET count == schedule[visited[k].zone][visited[k].entry].value.val
        result == ResultOf(k)
    IN /\ visited[k].outcome = "served" =>
            /\ result.value.kind = "str"
            /\ Len(visited[k].slice) = count
            /\ Len(result.value.val) >= count
            /\ variant = "refined" =>
                 result.value.val = patternexpand(visited[k].slice)
       /\ visited[k].outcome = "shortfall" =>
            \E got \in 0..(count - 1) :
              result.value = StrValue(ErrorText(count, got))

(* RefinedPACDecompiler served a group with an expansion that is longer    *)
(* than the slice and not a multiple of the group's length, and recorded a *)
(* shortfall for another group                                             *)
C19_Witness ==
  /\ variant = "refined"
  /\ Len(visited) = 2
  /\ visited[1].outcome = "served"
  /\ Len(ResultOf(1).value.val) > Len(visited[1].slice)
  /\ Len(ResultOf(1).value.val) % ResultOf(1).length_key # 0
  /\ visited[2].outcome = "shortfall"

(* C20 as stated: the ZoneSchedule is never mutated: after                 *)
(* decompress_domains every required count of the schedule is what it was  *)
(* before the call.                                                        *)
C20_ScheduleNotMutated ==
  ddpc \in {"True", "False"} =>
    \A z \in 1..Len(schedule) : \A e \in 1..Len(schedule[z]) :
      /\ domains[z][e].value.kind = "int"
      /\ domains[z][e].value.val = schedule[z][e].value.val

(* C20 amended: decompress_domains overwrites, in place, the required      *)
(* count of every entry with a positive integer count by that entry's      *)
(* result (a text or a shortfall record) when it processes the entry, and  *)
(* changes nothing else of the schedule: the zones, the length keys, their *)
(* order, the entries whose count is not positive and the entries not yet  *)
(* processed stay as they were; with an empty stream nothing is changed.   *)
C20_OnlyCountsReplaced ==
  /\ Len(domains) = Len(schedule)
  /\ \A z \in 1..Len(schedule) :
       /\ Len(domains[z]) = Len(schedule[z])
       /\ \A e \in 1..Len(schedule[z]) :
            /\ domains[z][e].length_key = schedule[z][e].length_key
            /\ IF WasVisited(z, e) /\ schedule[z][e].value.val > 0
                 THEN domains[z][e].value.kind = "str"
                 ELSE domains[z][e] = schedule[z][e]
  /\ ddpc = "False" => domains = schedule

(* the traversal is over: one count was replaced by text and a count of 0  *)
(* is still in place                                                       *)
C20_Witness ==
  /\ ddpc = "True"
  /\ Len(visited) = 2
  /\ visited[1].outcome = "skipped"
  /\ visited[2].outcome = "served"
  /\ ResultOf(1).value = IntValue(0)
  /\ ResultOf(2).value.kind = "str"

(* ------------------------ properties of the codec ----------------------- *)
(* the states right after one call  name(codec_arg) *)
Called(name) == codec_calls = <<name>>

MaskSymbols == {lzpmask_patterns[i][2][1] : i \in 1..Len(lzpmask_patterns)}

(* the code of a mask symbol; any other character as it is *)
CodeOf(c) ==
  IF c \in MaskSymbols
    THEN (CHOOSE p \in {lzpmask_patterns[i] : i \in 1..Len(lzpmask_patterns)} :
            p[2] = <<c>>)[1]
    ELSE <<c>>

(* "Hello!World@Test#" and "HelloAAWorldgATestAB" *)
HelloInput ==
  <<72, 101, 108, 108, 111, 33, 87, 111, 114, 108, 100, 64, 84, 101,
  115, 116, 35>>
HelloOutput ==
  <<72, 101, 108, 108, 111, 65, 65, 87, 111, 114, 108, 100, 103, 65,
  84, 101, 115, 116, 65, 66>>

(* C22: patternreplace(s, lzpmask=True) puts, character by character, the  *)
(* two-character code in the place of each of the 15 symbols and leaves    *)
(* every other character where it is; the result holds none of the 15      *)
(* symbols, and "Hello!World@Test#" gives "HelloAAWorldgATestAB".          *)
C22_SymbolsToCodes ==
  Called("patternreplace_lzpmask") =>
    /\ codec_result = Concat([i \in 1..Len(codec_arg) |-> CodeOf(codec_arg[i])])
    /\ \A i \in 1..Len(codec_result) : codec_result[i] \notin MaskSymbols
    /\ codec_arg = HelloInput => codec_result = HelloOutput

C22_Witness ==
  /\ Called("patternreplace_lzpmask")
  /\ codec_arg = HelloInput
  /\ codec_result = HelloOutput

(* the states after patternreplace(codec_arg, lzpmask=True) and then       *)
(* patternreplace_OLD of its result                                        *)
RoundTripDone == codec_calls = <<"patternreplace_lzpmask", "patternreplace_OLD">>

(* C23 as stated: symbol-to-code and then code-to-symbol substitution      *)
(* gives back the original string, whatever the string.                    *)
C23_RoundTripAnyString == RoundTripDone => codec_result = codec_arg

(* C23: for a string that is one of the 15 mask symbols alone, the         *)
(* symbol-to-code substitution followed by the code-to-symbol substitution *)
(* gives back that symbol.                                                 *)
C23_RoundTripOfSymbol ==
  (RoundTripDone /\ Len(codec_arg) = 1 /\ codec_arg[1] \in MaskSymbols)
    => codec_result = codec_arg

C23_Witness ==
  /\ RoundTripDone
  /\ codec_arg = <<64>>
  /\ codec_result = <<64>>

(* C24: a2b substitutes the mask alphabet first, pads the result with '='  *)
(* to a multiple of 4 characters, and decodes that as base64: "QUJD"       *)
(* gives "ABC", "QQ" gives "A", "QUI" gives "AB" and "!" (which becomes    *)
(* "AA==") gives chr(0).  When decoding fails, as for "Q" and for a        *)
(* character outside ASCII, a2b returns '' and prints its warning; the     *)
(* warning is printed in no other case, and a2b returns a string for every *)
(* argument, the strings the other codec functions return included.        *)
C24_A2bDecodesOrWarns ==
  /\ LET r == a2b(codec_result)
     IN r.warning \in BOOLEAN /\ (r.warning => r.result = <<>>)
  /\ Called("a2b") =>
       LET processed == Padded(patternreplace(codec_arg, TRUE))
           decoded == b64decode(processed)
       IN /\ Len(processed) % 4 = 0
          /\ warned = ~decoded.ok
          /\ warned => codec_result = <<>>
          /\ ~warned => codec_result = decoded.bytes
          /\ codec_arg = <<81, 85, 74, 68>> => codec_result = <<65, 66, 67>>
          /\ codec_arg = <<81, 81>> => codec_result = <<65>> /\ ~warned
          /\ codec_arg = <<81, 85, 73>> => codec_result = <<65, 66>>
          /\ codec_arg = <<33>> => codec_result = <<0>> /\ ~warned
          /\ codec_arg \in {<<81>>, <<200>>} => warned

C24_Witness ==
  /\ Called("a2b")
  /\ codec_arg = <<81, 81>>
  /\ codec_result = <<65>>
  /\ ~warned

(* the keys of patterns_ordered: 50 codes "!X" and 50 one-character codes *)
CodeKeys == {patterns_ordered[i][1] : i \in 1..Len(patterns_ordered)}

(* s holds a one-character code, or a two-character code "!X" *)
HasCode(s) ==
  \E i \in 1..Len(s) :
    \/ <<s[i]>> \in CodeKeys
    \/ i < Len(s) /\ <<s[i], s[i + 1]>> \in CodeKeys

ExpansionOf(key) ==
  (CHOOSE p \in {patterns_ordered[i] : i \in 1..Len(patterns_ordered)} :
     p[1] = key)[2]

(* C26: for every two-character code "!X", patternexpand("!X") is the      *)
(* 4-character expansion of that code, and not '!' followed by the         *)
(* expansion of the one-character code X; "!A" gives "porn".               *)
C26_TwoCharCodesFirst ==
  (Called("patternexpand") /\ Len(codec_arg) = 2 /\ codec_arg \in CodeKeys)
    => /\ codec_result = ExpansionOf(codec_arg)
       /\ Len(codec_result) = 4
       /\ codec_result # <<33>> \o ExpansionOf(<<codec_arg[2]>>)
       /\ codec_arg = <<33, 65>> => codec_result = <<112, 111, 114, 110>>

C26_Witness ==
  /\ Called("patternexpand")
  /\ codec_arg = <<33, 65>>
  /\ codec_result = <<112, 111, 114, 110>>

(* one pass over s from position i on: at each position the longest code   *)
(* starting there is replaced by its expansion, a two-character code "!X"  *)
(* before a one-character code; any other character is copied              *)
RECURSIVE SinglePassFrom(_, _)
SinglePassFrom(s, i) ==
  IF i > Len(s) THEN <<>>
  ELSE IF i < Len(s) /\ <<s[i], s[i + 1]>> \in CodeKeys
    THEN ExpansionOf(<<s[i], s[i + 1]>>) \o SinglePassFrom(s, i + 2)
    ELSE IF <<s[i]>> \in CodeKeys
      THEN ExpansionOf(<<s[i]>>) \o SinglePassFrom(s, i + 1)
      ELSE <<s[i]>> \o SinglePassFrom(s, i + 1)

C30_NoCodeLeft == Called("patternexpand") => ~HasCode(codec_result)

(* "!AA" gives "pornin" *)
C30_Witness ==
  /\ Called("patternexpand")
  /\ codec_arg = <<33, 65, 65>>
  /\ HasCode(codec_arg)
  /\ codec_result = <<112, 111, 114, 110, 105, 110>>

(* -------------------------- zero bytes in the output -------------------- *)
(* the number of chr(0) in s *)
Zeros(s) == Cardinality({i \in 1..Len(s) : s[i] = 0})

(* C28: for every group that was served, the text stored for it holds as   *)
(* many chr(0) as its slice of the decoded text, and the slices and the    *)
(* text still held by the caller together hold as many as unlzp returned:  *)
(* neither slicing nor patternexpand removes or alters one.                *)
C28_ZerosPreserved ==
  /\ \A k \in 1..Len(visited) :
       visited[k].outcome = "served" =>
         Zeros(ResultOf(k).value.val) = Zeros(visited[k].slice)
  /\ Zeros(Produced)
       = Zeros(leftover)
           + SumSeq([k \in 1..Len(visited) |->
                       IF visited[k].outcome = "served"
                         THEN Zeros(visited[k].slice) ELSE 0])

(* "!As" and chr(0) is stored as "porns" and chr(0) *)
C28_Witness ==
  /\ variant = "refined"
  /\ ddpc = "True"
  /\ Len(visited) >= 1
  /\ visited[1].outcome = "served"
  /\ visited[1].slice = <<33, 65, 115, 0>>
  /\ ResultOf(1).value.val = <<112, 111, 114, 110, 115, 0>>

(* =============== properties of two orders of one zone =================== *)
(* In the first run the zone is [A, B]; in the second run it is [B, A].    *)
CountA == schedule[1][1].value.val
CountB == schedule[1][2].value.val

BothRunsDone == ddpc = "True" /\ twin.returned = "True"

(* B was served in both runs *)
BServedTwice ==
  /\ BothRunsDone
  /\ visited[2].outcome = "served"
  /\ twin.slices[1].served

(* C21 as stated: with B requested before A, the output for B differs from *)
(* the output for B when A is requested first.                             *)
C21_OrderChangesOutput ==
  BServedTwice => domains[1][2].value # twin.results[1]

(* C21: requested after A, B gets the decoded characters that follow A's   *)
(* share; requested first, B gets the first decoded characters.  What is   *)
(* stored for B is the stored form of that slice in both runs, so the two  *)
(* outputs for B differ exactly when the stored forms of the two slices    *)
(* differ.                                                                 *)
C21_OrderMovesSlice ==
  BServedTwice =>
    LET afterA == IF visited[1].outcome = "served" THEN CountA ELSE 0
        slice1 == SubSeq(Produced, afterA + 1, afterA + CountB)
        slice2 == SubSeq(twin.produced, 1, CountB)
    IN /\ Len(slice1) = CountB
       /\ Len(slice2) = CountB
       /\ domains[1][2].value = StrValue(StoredText(slice1))
       /\ twin.results[1] = StrValue(StoredText(slice2))
       /\ (domains[1][2].value = twin.results[1])
            <=> (StoredText(slice1) = StoredText(slice2))

(* A and B ask for 4 characters each of "!As" and 5 chr(0): B gets         *)
(* different text in the two runs                                          *)
C21_Witness ==
  /\ BServedTwice
  /\ visited[1].outcome = "served"
  /\ twin.slices[2].served
  /\ domains[1][2].value # twin.results[1]
  /\ twin.slices[1].text = <<33, 65, 115, 0>>

(* ================= properties of codec calls in a session =============== *)
(* what the codec function called name returns for s *)
ApplyCodec(name, s) ==
  CASE name = "patternreplace_lzpmask" -> patternreplace(s, TRUE)
    [] name = "patternreplace" -> patternreplace(s, FALSE)
    [] name = "patternreplace_OLD" -> patternreplace_OLD(s, TRUE)
    [] name = "patternexpand" -> patternexpand(s)
    [] name = "a2b" -> a2b(s).result

(* the result of the first k calls of a pipeline that starts from s *)
RECURSIVE PipelineOf(_, _, _)
PipelineOf(s, names, k) ==
  IF k = 0 THEN s
  ELSE CHOOSE r \in {ApplyCodec(names[k], t) :
                       t \in {PipelineOf(s, names, k - 1)}} : TRUE

CodecStep == codec_calls' # codec_calls

StatsBefore == [NewStats EXCEPT !.total_zones = Len(schedule)]

(* the schedule holds a group that would ask for text *)
HasGroup ==
  \E z \in 1..Len(schedule) : \E e \in 1..Len(schedule[z]) :
    IsPositiveInt(schedule[z][e].value)

(* the compressed data or the decoded mask is the empty string *)
AStreamIsEmpty == Len(domains_lzp) = 0 \/ Len(mask_lzp_decoded) = 0

(* C31: when the compressed data or the decoded mask is empty,             *)
(* decompress_domains returns False from its first statement: it makes no  *)
(* unlzp call, the decoder keeps its fresh table and hash, no entry of     *)
(* self.domains is replaced and self.stats stays as it was.                *)
C31_EmptyStreamsReturnFalse ==
  /\ [](AStreamIsEmpty =>
          /\ ddpc \in {"start", "False"}
          /\ nCalls = 0
          /\ calls = <<>>
          /\ limits = <<>>
          /\ visited = <<>>
          /\ table = NewDecoder.table
          /\ hash_val = NewDecoder.hash_val
          /\ domains = schedule
          /\ stats = StatsBefore)
  /\ [][(ddpc = "start" /\ AStreamIsEmpty) => ddpc' = "False"]_vars

(* the call returned False on an empty mask with data and groups present *)
C31_Witness ==
  /\ ddpc = "False"
  /\ mask_lzp_decoded = <<>>
  /\ domains_lzp # <<>>
  /\ HasGroup

(* the groups recorded as shortfalls so far *)
Shortfalls == {k \in 1..Len(visited) : visited[k].outcome = "shortfall"}

(* the zones of the schedule none of whose groups fell short *)
CleanZones ==
  {z \in 1..Len(schedule) : \A k \in Shortfalls : visited[k].zone # z}

(* the counters agree with the groups and zones of the run *)
TotalsAgree ==
  /\ stats.decompression_errors = Cardinality(Shortfalls)
  /\ stats.successful_zones = Cardinality(CleanZones)
  /\ stats.successful_zones <= stats.total_zones

(* C32 as stated: after decompress_domains on a fresh decompiler, whatever *)
(* it returned, decompression_errors is the number of groups recorded as   *)
(* shortfalls, successful_zones is the number of zones none of whose       *)
(* groups fell short, and successful_zones <= total_zones.                 *)
C32_TotalsAfterAnyReturn == ddpc \in {"True", "False"} => TotalsAgree

(* C32, amended: the counters agree with the groups and zones after a call *)
(* that returned True; after a False return all of them are still 0 and    *)
(* successful_zones <= total_zones holds in every state of the call.       *)
C32_TotalsAfterTrueReturn ==
  /\ ddpc = "True" => TotalsAgree
  /\ ddpc = "False" =>
       /\ stats.decompression_errors = 0
       /\ stats.successful_zones = 0
       /\ Shortfalls = {}
  /\ stats.successful_zones <= stats.total_zones
  /\ stats.total_zones = Len(schedule)

(* a finished run with a zone whose first group fell short and whose       *)
(* second was served, next to a zone without a shortfall                   *)
C32_Witness ==
  /\ ddpc = "True"
  /\ Len(schedule) = 2
  /\ stats.decompression_errors = 1
  /\ stats.successful_zones = 1
  /\ \E k \in Shortfalls :
       \E j \in (k + 1)..Len(visited) :
         visited[j].zone = visited[k].zone /\ visited[j].outcome = "served"

C34_ShortfallKeepsLeftover ==
  [][ GroupStep =>
        LET need == domains[zone_idx][entry_idx].value.val
            last == visited'[Len(visited')]
        IN /\ last.outcome = "shortfall" =>
                /\ leftover' = HeldAfterCall
                /\ SubSeq(leftover', 1, Len(leftover)) = leftover
           /\ (Shortfalls # {} /\ need <= Len(leftover)) =>
                /\ calls' = calls
                /\ last.outcome = "served"
                /\ last.slice = SubSeq(leftover, 1, need)
                /\ leftover' = SubSeq(leftover, need + 1, Len(leftover))
                /\ domains'[zone_idx][entry_idx].value
                     = StrValue(StoredText(last.slice))
    ]_vars

(* a group fell short with characters in leftover, and the next group was  *)
(* served from them: the only call is the one of the failed group          *)
C34_Witness ==
  /\ Len(visited) = 2
  /\ visited[1].outcome = "shortfall"
  /\ visited[2].outcome = "served"
  /\ Len(calls) = 1
  /\ calls[1].entry = visited[1].entry
  /\ calls[1].zone = visited[1].zone
  /\ visited[2].slice = SubSeq(calls[1].decompressed, 1, Len(visited[2].slice))
  /\ visited[2].slice # <<>>

(* ===================== bounds on what a call returns ==================== *)
(* the number of 0 bits among bits 0 .. n-1 of a byte *)
ZeroBitsBelow(x, n) == Cardinality({i \in 0..(n - 1) : BitNo(x, i) = 0})

(* the 0 bits among the mask bits the call in progress has gone through:   *)
(* the mask bytes before the current one, and bit_index bits of the        *)
(* current one.  The count is exact as long as data is left (no byte has   *)
(* been abandoned), hence in the state that follows the read of the last   *)
(* data byte, after which data_pos does not change.                        *)
ZeroBitsProcessed ==
  IF mask_pos = 0 THEN 0
  ELSE SumSeq([b \in 1..(mask_pos - 1) |->
                 ZeroBitsBelow(remaining_mask[b], 8)])
       + ZeroBitsBelow(mask_byte, bit_index)

(* C35: in every state of an unlzp call, and in the tuple it returns:      *)
(* 0 <= data_used <= len(data), 0 <= mask_used <= len(mask), data_used is  *)
(* at most the number of 0 bits processed, and the output is at most       *)
(* 8 * mask_used characters long.                                          *)
C35_ReturnedCountsBounded ==
  /\ pc # "idle" =>
       /\ data_pos \in 0..Len(remaining_data)
       /\ mask_pos \in 0..Len(remaining_mask)
       /\ data_pos <= ZeroBitsProcessed
       /\ Len(output) <= 8 * mask_pos
       /\ Len(emitted) <= 8 * mask_pos
  /\ pc = "return" =>
       /\ ReturnValue[2] \in 0..Len(remaining_data)
       /\ ReturnValue[3] \in 0..Len(remaining_mask)
       /\ ReturnValue[2] <= ZeroBitsProcessed
       /\ Len(ReturnValue[1]) <= 8 * ReturnValue[3]

(* a call returns 8 characters for one mask byte of two, having used all   *)
(* its data on fewer bytes than 0 bits were processed                      *)
C35_Witness ==
  /\ pc = "return"
  /\ Len(remaining_mask) = 2
  /\ ReturnValue[3] = 1
  /\ Len(ReturnValue[1]) = 8
  /\ ReturnValue[2] = Len(remaining_data)
  /\ ReturnValue[2] >= 1
  /\ ReturnValue[2] < ZeroBitsProcessed

(* ============================= termination ============================== *)
(* an unlzp call is in one of its loops *)
InCall == pc \in {"while", "for", "join"}

(* decompress_domains has returned *)
Returned == ddpc \in {"True", "False"}

(* the entries of the schedule with a positive integer count *)
Groups ==
  {p \in UNION {{<<z, e>> : e \in 1..Len(schedule[z])} :
                  z \in 1..Len(schedule)} :
     IsPositiveInt(schedule[p[1]][p[2]].value)}

(* C36: every unlzp call that has started reaches its return statement;    *)
(* each outer iteration reads one mask byte, moving the mask cursor up by  *)
(* one, and the call returns with the mask used up or with at least limit  *)
(* characters produced.  Every decompress_domains call returns, having     *)
(* made at most one unlzp call for each schedule entry.                    *)
C36_CallsTerminate ==
  /\ InCall ~> (pc = "return")
  /\ (ddpc = "start") ~> Returned
  /\ [][(pc = "while" /\ pc' = "for") =>
          (mask_pos' = mask_pos + 1 /\ mask_pos' <= Len(remaining_mask))]_vars
  /\ [](pc = "return" =>
          \/ mask_pos = Len(remaining_mask)
          \/ Len(ReturnValue[1]) >= request_size)
  /\ [](/\ Len(calls) <= Cardinality(Groups)
        /\ \A i, j \in 1..Len(calls) :
             (calls[i].zone = calls[j].zone /\ calls[i].entry = calls[j].entry)
               => i = j
        /\ \A i \in 1..Len(calls) : <<calls[i].zone, calls[i].entry>> \in Groups)

(* a decompress_domains call returned True after two unlzp calls for two   *)
(* entries, the second one on an exhausted mask                            *)
C36_Witness ==
  /\ ddpc = "True"
  /\ Len(calls) = 2
  /\ Cardinality(Groups) = 2
  /\ calls[2].mask_used = 0

(* ================= properties of the two decoder classes ================ *)
(* the number of 0 bits among the first n bits of a mask stream, the bits  *)
(* of each byte counted from bit 0                                         *)
ZeroBitsIn(mask, n) ==
  Cardinality({k \in 0..(n - 1) : BitNo(mask[(k \div 8) + 1], k % 8) = 0})

(* the mask bits a call with this limit goes through when every bit        *)
(* yields a character                                                      *)
BitsOfCall(mask, limit) ==
  IF 8 * Len(mask) < limit THEN 8 * Len(mask) ELSE limit

(* no 0 bit of the first call finds the data stream used up *)
DataSuffices ==
  ZeroBitsIn(mask_lzp_decoded, BitsOfCall(mask_lzp_decoded, limits[1]))
    <= Len(domains_lzp)

(* both decoders have made their first call and no other *)
FirstCallsDone == nCalls = 1 /\ twin.nCalls = 1

(* the two callers hold the same streams and text, the two decoders the    *)
(* same table and hash                                                     *)
SameOutcome ==
  /\ leftover = twin.leftover
  /\ remaining_data = twin.remaining_data
  /\ remaining_mask = twin.remaining_mask
  /\ table = twin.table
  /\ hash_val = twin.hash_val

(* C37: from fresh decoders, with a limit that is a positive multiple of 8 *)
(* and a data stream that holds a byte for every 0 bit of the call,        *)
(* LZPDecompressor.unlzp and FixedLZPDecompressor.unlzp return the same    *)
(* output, data_used and mask_used and leave the same table and hash.      *)
C37_VariantsAgreeOnFirstCall ==
  (/\ FirstCallsDone
   /\ limits[1] > 0
   /\ limits[1] % 8 = 0
   /\ DataSuffices)
    => SameOutcome

(* both classes decoded two mask bytes with literals in each, under limit  *)
(* 16, and left a table with entries                                       *)
C37_Witness ==
  /\ FirstCallsDone
  /\ limits[1] = 16
  /\ DataSuffices
  /\ Len(leftover) = 16
  /\ mask_lzp_decoded = <<248, 7>>
  /\ remaining_data = <<>>
  /\ DOMAIN table # {}
  /\ SameOutcome

(* ================ the mask-alphabet substitution, repeated ============== *)
(* the string holds a symbol of the mask alphabet *)
HasMaskSymbol(s) == \E i \in 1..Len(s) : s[i] \in MaskSymbols

(* C38: patternreplace with lzpmask=True leaves no symbol of the mask      *)
(* alphabet, so applying it to its own result changes nothing, and         *)
(* a2b(patternreplace(s, lzpmask=True)) returns what a2b(s) returns, with  *)
(* a warning in the one case exactly when in the other.                    *)
C38_MaskSubstitutionIdempotent ==
  /\ (codec_calls # <<>> /\ codec_calls[Len(codec_calls)] = "patternreplace_lzpmask")
       => ~HasMaskSymbol(codec_result)
  /\ codec_calls = <<"patternreplace_lzpmask", "patternreplace_lzpmask">>
       => codec_result = patternreplace(codec_arg, TRUE)
  /\ codec_calls = <<"patternreplace_lzpmask", "a2b">>
       => \E direct \in {a2b(codec_arg)} :
            /\ codec_result = direct.result
            /\ warned = direct.warning

(* a string with a symbol was substituted and then decoded to text *)
C38_Witness ==
  /\ codec_calls = <<"patternreplace_lzpmask", "a2b">>
  /\ HasMaskSymbol(codec_arg)
  /\ ~warned
  /\ codec_result # <<>>

(* ======================= properties of the tunnel GUI ==================== *)
(* this step is the return of the handler called name *)
Returns(name) == procs.returned # name /\ procs'.returned = name

(* C39: tray_running is True when hide_to_tray returns and False when      *)
(* show_from_tray or cleanup_and_quit returns, over any number of          *)
(* hide/show cycles and under every interleaving with the tray threads.    *)
C39_TrayRunningFollowsHandlers ==
  [][ /\ Returns("hide_to_tray") => app'.tray_running
      /\ Returns("show_from_tray") => ~app'.tray_running
      /\ Returns("cleanup_and_quit") => ~app'.tray_running
    ]_vars

(* C40: when a tunnel run has ended because the connection was lost while  *)
(* auto_reconnect is enabled, run_tunnel_loop starts another tunnel run    *)
(* (unless the application quits first); it never counts more than         *)
(* max_reconnect_attempts reconnections and reports only then.             *)
C40_LoopReconnects ==
  /\ (procs.tunnel = "check" /\ procs.lost /\ app.auto_reconnect
        /\ procs.runs = 1)
       ~> (procs.runs > 1 \/ procs.quit)
  /\ [](app.reconnect_attempts <= max_reconnect_attempts)
  /\ [](procs.reported =>
          app.reconnect_attempts >= max_reconnect_attempts)

====
